---- MODULE Spec2Model ----
(***************************************************************************)
(* Data-Alchemist: the validation engine of src/app/page.tsx and the host  *)
(* (the Home component) that schedules its passes.                         *)
(*                                                                         *)
(* A JavaScript string is a sequence of one-character strings, so that     *)
(* split, trim, parseInt, Number, JSON.parse and the regular expressions   *)
(* are computed character by character.  The alphabet of the cells is      *)
(* digits, letters, space and the punctuation , - [ ] { } : " \ and, in   *)
(* JSON text only, the decimal point; exponents and hexadecimal literals   *)
(* (1e3, 0x1f) are outside it.                                             *)
(***************************************************************************)
EXTENDS Integers, Sequences, FiniteSets, TLC

VARIABLES
    clientsData,          \* useState: the clients dataset
    workersData,          \* useState: the workers dataset
    tasksData,            \* useState: the tasks dataset
    validationErrors,     \* useState: the report of the last pass
    suggestedCorrections, \* useState: the pending AI corrections, or NoCorrections
    isUploading,          \* useState
    loadingErrorCorrection, \* useState: a correction request is in flight
    clientsFile,          \* useState: the file selected in the clients input
    workersFile,          \* useState: the file selected in the workers input
    tasksFile,            \* useState: the file selected in the tasks input
    upload,               \* the running handleUpload: its position and its closure
    readers,              \* FileReaders started by parseFile whose onload is pending
    timers,               \* pending setTimeout callbacks, in scheduling order
    toasts,               \* the toasts shown by the last step
    commands,             \* the number of commands of the user so far
    lastPass,             \* the locals of the last validation callback that ran, and
                          \* whether the pass before it was given the same datasets
    loadingNlDataModification, \* useState: a data modification request is in flight
    nlClosure,            \* the datasets in the closure of the running handleNlDataModification
    held,                 \* history: every trio of datasets the state has held at one instant
    post,                 \* the running POST handler of api/nl-to-rule: its position and locals
    extraction            \* a call of extractJSONFromAIResponse: its arguments and its result

vars == <<clientsData, workersData, tasksData, validationErrors,
          suggestedCorrections, isUploading, loadingErrorCorrection,
          clientsFile, workersFile, tasksFile, upload, readers, timers,
          toasts, commands, lastPass, loadingNlDataModification, nlClosure, held,
          post, extraction>>

-----------------------------------------------------------------------------
(* JavaScript values and primitives *)

\* a cell value: a string, a number or undefined (a missing column)
Str(s) == [t |-> "str", s |-> s, n |-> 0]
Num(n) == [t |-> "num", s |-> <<>>, n |-> n]
Undef == [t |-> "undef", s |-> <<>>, n |-> 0]

\* a numeric result: NaN, an integer v, or a number with the integer part v
\* and the fraction frac (a sign and the decimal digits, <<>> for none)
NaN == [nan |-> TRUE, v |-> 0, frac |-> <<>>]
Int2Num(v) == [nan |-> FALSE, v |-> v, frac |-> <<>>]
Frac2Num(v, frac) == [nan |-> FALSE, v |-> v, frac |-> frac]

DigitChars == <<"0", "1", "2", "3", "4", "5", "6", "7", "8", "9">>
IsDigit(c) == \E d \in 1..10 : DigitChars[d] = c
DigitVal(c) == (CHOOSE d \in 1..10 : DigitChars[d] = c) - 1
AllDigits(s) == \A i \in 1..Len(s) : IsDigit(s[i])

RECURSIVE DigitsOf(_)
DigitsOf(n) ==
    IF n < 10 THEN <<DigitChars[n + 1]>>
    ELSE DigitsOf(n \div 10) \o <<DigitChars[(n % 10) + 1]>>

\* Number.prototype.toString of an integer
NumToString(n) == IF n < 0 THEN <<"-">> \o DigitsOf(-n) ELSE DigitsOf(n)

RECURSIVE DigitsValue(_)
DigitsValue(ds) ==
    IF ds = <<>> THEN 0
    ELSE DigitsValue(SubSeq(ds, 1, Len(ds) - 1)) * 10 + DigitVal(ds[Len(ds)])

\* ToBoolean
Truthy(c) ==
    CASE c.t = "str" -> c.s # <<>>
      [] c.t = "num" -> c.n # 0
      [] OTHER -> FALSE

\* String(x)
ToStr(c) ==
    CASE c.t = "str" -> c.s
      [] c.t = "num" -> NumToString(c.n)
      [] OTHER -> <<"u", "n", "d", "e", "f", "i", "n", "e", "d">>

\* x || ''
OrEmpty(c) == IF Truthy(c) THEN c ELSE Str(<<>>)

RECURSIVE TrimStart(_)
TrimStart(s) == IF s # <<>> /\ s[1] = " " THEN TrimStart(Tail(s)) ELSE s

RECURSIVE TrimEnd(_)
TrimEnd(s) ==
    IF s # <<>> /\ s[Len(s)] = " " THEN TrimEnd(SubSeq(s, 1, Len(s) - 1)) ELSE s

\* String.prototype.trim
Trim(s) == TrimEnd(TrimStart(s))

\* String.prototype.split with a one-character separator
RECURSIVE Split(_, _)
Split(s, sep) ==
    IF \E i \in 1..Len(s) : s[i] = sep
    THEN LET i == CHOOSE k \in 1..Len(s) :
                      s[k] = sep /\ \A j \in 1..(k - 1) : s[j] # sep
         IN  <<SubSeq(s, 1, i - 1)>> \o Split(SubSeq(s, i + 1, Len(s)), sep)
    ELSE <<s>>

StartsWith(s, c) == s # <<>> /\ s[1] = c
EndsWith(s, c) == s # <<>> /\ s[Len(s)] = c

\* the value of a sign and a run of digits; NaN when there is no digit
IntOfDigits(neg, ds) ==
    IF ds = <<>> THEN NaN
    ELSE Int2Num(IF neg THEN 0 - DigitsValue(ds) ELSE DigitsValue(ds))

\* Number of a trimmed string
NumberOfTrimmed(t) ==
    IF t = <<>> THEN Int2Num(0)
    ELSE IF StartsWith(t, "-")
         THEN (IF AllDigits(Tail(t)) THEN IntOfDigits(TRUE, Tail(t)) ELSE NaN)
         ELSE (IF AllDigits(t) THEN IntOfDigits(FALSE, t) ELSE NaN)

\* Number(string): whitespace is trimmed, "" is 0, a signed decimal integer
\* is its value, anything else is NaN
StringToNumber(s) == NumberOfTrimmed(Trim(s))

RECURSIVE DigitPrefix(_)
DigitPrefix(s) ==
    IF s # <<>> /\ IsDigit(s[1]) THEN <<s[1]>> \o DigitPrefix(Tail(s)) ELSE <<>>

\* parseInt of a string without leading whitespace
ParseIntTrimmed(t) ==
    IF StartsWith(t, "-")
    THEN IntOfDigits(TRUE, DigitPrefix(Tail(t)))
    ELSE IntOfDigits(FALSE, DigitPrefix(t))

\* parseInt(string): leading whitespace, an optional sign, the longest
\* prefix of digits; NaN when there is no digit
ParseInt(s) == ParseIntTrimmed(TrimStart(s))

\* parseInt(String(x || ''))
ParseIntCell(c) == ParseInt(ToStr(OrEmpty(c)))

\* n || 0 for a numeric result
NumOrZero(r) == IF r.nan THEN 0 ELSE r.v

\* row[col], undefined for a column the row does not have
Get(row, col) == IF col \in DOMAIN row THEN row[col] ELSE Undef

-----------------------------------------------------------------------------
(* JSON.parse over the cell alphabet: arrays, objects, strings and integers. *)
(* The literals true, false and null cannot be spelled in the alphabet.      *)

RECURSIVE SkipWs(_, _)
SkipWs(s, i) == IF i <= Len(s) /\ s[i] = " " THEN SkipWs(s, i + 1) ELSE i

JsonFail == [ok |-> FALSE, pos |-> 0, num |-> FALSE, v |-> 0, frac |-> <<>>, arr |-> FALSE, elems |-> <<>>, obj |-> FALSE]
JsonOther(pos) == [ok |-> TRUE, pos |-> pos, num |-> FALSE, v |-> 0, frac |-> <<>>, arr |-> FALSE, elems |-> <<>>, obj |-> FALSE]
\* an object that ends before pos
JsonObject(pos) == [JsonOther(pos) EXCEPT !.obj = TRUE]

JsonEscapes == {"\"", "\\", "/", "b", "f", "n", "r", "t"}

\* the index after the closing quote of a string literal whose body starts
\* at j, or 0 for an unterminated literal or a bad escape
RECURSIVE JsonStringEnd(_, _)
JsonStringEnd(s, j) ==
    IF j > Len(s) THEN 0
    ELSE IF s[j] = "\"" THEN j + 1
    ELSE IF s[j] = "\\"
         THEN IF j + 1 <= Len(s) /\ s[j + 1] \in JsonEscapes
              THEN JsonStringEnd(s, j + 2) ELSE 0
    ELSE JsonStringEnd(s, j + 1)

\* the integer digits of a JSON number: 0 | [1-9][0-9]*
JsonInt(ds) == IF ds # <<>> /\ ds[1] = "0" THEN <<"0">> ELSE ds

\* the digits of a fraction without its trailing zeros
RECURSIVE StripZeros(_)
StripZeros(fd) ==
    IF fd # <<>> /\ fd[Len(fd)] = "0" THEN StripZeros(SubSeq(fd, 1, Len(fd) - 1)) ELSE fd

\* the number with the integer digits int and the fraction digits fd, which
\* ends before pos
JsonNum(neg, int, fd, pos) ==
    [ok |-> TRUE, pos |-> pos, num |-> TRUE,
     v |-> IF neg THEN 0 - DigitsValue(int) ELSE DigitsValue(int),
     frac |-> IF fd = <<>> THEN <<>> ELSE <<IF neg THEN "-" ELSE "+">> \o fd,
     arr |-> FALSE, elems |-> <<>>, obj |-> FALSE]

\* a fraction: "." [0-9]+, with its digits fd starting at j
JsonFractionOf(neg, int, j, fd) ==
    IF fd = <<>> THEN JsonFail ELSE JsonNum(neg, int, StripZeros(fd), j + Len(fd))

\* after the integer digits of a number, at j
JsonFractionAt(s, neg, int, j) ==
    IF j <= Len(s) /\ s[j] = "."
    THEN JsonFractionOf(neg, int, j + 1, DigitPrefix(SubSeq(s, j + 1, Len(s))))
    ELSE JsonNum(neg, int, <<>>, j)

JsonNumberOf(s, neg, k, int) ==
    IF int = <<>> THEN JsonFail ELSE JsonFractionAt(s, neg, int, k + Len(int))

JsonNumber(s, i) ==
    IF i <= Len(s) /\ s[i] = "-"
    THEN JsonNumberOf(s, TRUE, i + 1, JsonInt(DigitPrefix(SubSeq(s, i + 1, Len(s)))))
    ELSE JsonNumberOf(s, FALSE, i, JsonInt(DigitPrefix(SubSeq(s, i, Len(s)))))

JsonStringValue(e) == IF e = 0 THEN JsonFail ELSE JsonOther(e)

\* an array element in front of the elements that follow it
JsonCons(x, r) ==
    IF r.ok THEN [r EXCEPT !.elems = <<[num |-> x.num, v |-> x.v, frac |-> x.frac]>> \o r.elems]
    ELSE JsonFail

RECURSIVE JsonValue(_, _)
RECURSIVE JsonElems(_, _)
RECURSIVE JsonMembers(_, _)

\* after the element x of an array, at j
JsonElemsAfter(s, x, j) ==
    IF j > Len(s) THEN JsonFail
    ELSE IF s[j] = "]"
         THEN [JsonOther(j + 1) EXCEPT !.arr = TRUE,
                                       !.elems = <<[num |-> x.num, v |-> x.v, frac |-> x.frac]>>]
    ELSE IF s[j] = "," THEN JsonCons(x, JsonElems(s, SkipWs(s, j + 1)))
    ELSE JsonFail

JsonElemsOf(s, x) == IF x.ok THEN JsonElemsAfter(s, x, SkipWs(s, x.pos)) ELSE JsonFail

\* the elements of an array from k up to and including its closing bracket
JsonElems(s, k) == JsonElemsOf(s, JsonValue(s, k))

\* after a member of an object, at j
JsonMembersAfter(s, j) ==
    IF j > Len(s) THEN JsonFail
    ELSE IF s[j] = "}" THEN JsonObject(j + 1)
    ELSE IF s[j] = "," THEN JsonMembers(s, SkipWs(s, j + 1))
    ELSE JsonFail

JsonMemberOf(s, x) == IF x.ok THEN JsonMembersAfter(s, SkipWs(s, x.pos)) ELSE JsonFail

\* after the key of a member, at c
JsonMemberValue(s, c) ==
    IF c > Len(s) \/ s[c] # ":" THEN JsonFail
    ELSE JsonMemberOf(s, JsonValue(s, SkipWs(s, c + 1)))

JsonMemberKey(s, e) == IF e = 0 THEN JsonFail ELSE JsonMemberValue(s, SkipWs(s, e))

\* the members of an object from k up to and including its closing brace
JsonMembers(s, k) ==
    IF k > Len(s) \/ s[k] # "\"" THEN JsonFail
    ELSE JsonMemberKey(s, JsonStringEnd(s, k + 1))

JsonArrayFrom(s, k) ==
    IF k <= Len(s) /\ s[k] = "]" THEN [JsonOther(k + 1) EXCEPT !.arr = TRUE]
    ELSE JsonElems(s, k)

JsonObjectFrom(s, k) ==
    IF k <= Len(s) /\ s[k] = "}" THEN JsonObject(k + 1) ELSE JsonMembers(s, k)

\* the value that starts at i (whitespace already skipped)
JsonValue(s, i) ==
    IF i > Len(s) THEN JsonFail
    ELSE IF s[i] = "[" THEN JsonArrayFrom(s, SkipWs(s, i + 1))
    ELSE IF s[i] = "{" THEN JsonObjectFrom(s, SkipWs(s, i + 1))
    ELSE IF s[i] = "\"" THEN JsonStringValue(JsonStringEnd(s, i + 1))
    ELSE JsonNumber(s, i)

\* a value followed by nothing but whitespace
JsonWhole(s, x) == IF x.ok /\ SkipWs(s, x.pos) = Len(s) + 1 THEN x ELSE JsonFail

\* JSON.parse(s): ok is FALSE when it throws
JsonParse(s) == JsonWhole(s, JsonValue(s, SkipWs(s, 1)))

-----------------------------------------------------------------------------
(* The PreferredPhases grammar *)

\* \\d+ of the regular-expression literals: \\ is an escaped backslash, so
\* the atom is one backslash followed by one or more letters d
DigitsAtom(s) == Len(s) >= 2 /\ s[1] = "\\" /\ \A i \in 2..Len(s) : s[i] = "d"

\* /^\\d+-\\d+$/.test(s)
RangeRegexTest(s) ==
    \E i \in 1..Len(s) :
        /\ s[i] = "-"
        /\ DigitsAtom(SubSeq(s, 1, i - 1))
        /\ DigitsAtom(SubSeq(s, i + 1, Len(s)))

AllDigitsAtoms(parts) == \A i \in 1..Len(parts) : DigitsAtom(parts[i])

\* /^\\d+(?:,\\d+)*$/.test(s)
ListRegexTest(s) == AllDigitsAtoms(Split(s, ","))

\* /^[0-9]+$/.test(s)
DigitsRegexTest(s) == s # <<>> /\ AllDigits(s)

MapNumber(parts) == [i \in 1..Len(parts) |-> StringToNumber(parts[i])]
RangeNumbers(start, end) == [i \in 1..(end - start + 1) |-> Int2Num(start + i - 1)]

\* Array.isArray(parsed) && parsed.every(p => typeof p === 'number')
IsNumberArray(p) == p.ok /\ p.arr /\ \A i \in 1..Len(p.elems) : p.elems[i].num

\* !isNaN(start) && !isNaN(end) && start <= end
IsRange(ns) == ~ns[1].nan /\ ~ns[2].nan /\ ns[1].v <= ns[2].v

JsonPhases(p) ==
    IF IsNumberArray(p)
    THEN [i \in 1..Len(p.elems) |-> Frac2Num(p.elems[i].v, p.elems[i].frac)]
    ELSE <<>>

RangePhases(ns) == IF IsRange(ns) THEN RangeNumbers(ns[1].v, ns[2].v) ELSE <<>>

\* the phases of a string: a sequence of numeric results (Number can
\* give NaN in the comma form)
parsePreferredPhases(phasesString) ==
    IF StartsWith(phasesString, "[") /\ EndsWith(phasesString, "]")
    THEN JsonPhases(JsonParse(phasesString))
    ELSE IF RangeRegexTest(phasesString)
    THEN RangePhases(MapNumber(Split(phasesString, "-")))
    ELSE IF ListRegexTest(phasesString)
    THEN MapNumber(Split(phasesString, ","))
    ELSE <<>>

-----------------------------------------------------------------------------
(* Sequence helpers: Array.prototype.map / filter / flat / Set *)

Range(s) == {s[i] : i \in 1..Len(s)}

RECURSIVE ConcatAll(_)
ConcatAll(ss) == IF ss = <<>> THEN <<>> ELSE Head(ss) \o ConcatAll(Tail(ss))

AppendNew(r, x) == IF x \in Range(r) THEN r ELSE Append(r, x)

\* the values with their repetitions
WithRepetitions(s) == s

\* [...new Set(s)]: the first occurrence of each value, in order
RECURSIVE Dedup(_)
Dedup(s) ==
    IF s = <<>> THEN <<>>
    ELSE AppendNew(Dedup(SubSeq(s, 1, Len(s) - 1)), s[Len(s)])

MapTrim(parts) == [i \in 1..Len(parts) |-> Trim(parts[i])]
NotNaN(r) == ~r.nan
NonEmpty(s) == s # <<>>

\* obj[k] = (obj[k] || 0) + d
Bump(obj, k, d) ==
    IF k \in DOMAIN obj THEN [obj EXCEPT ![k] = @ + d] ELSE (k :> d) @@ obj

EmptyObject == [k \in {} |-> 0]

-----------------------------------------------------------------------------
(* Error messages: the template that produced the message and the values   *)
(* interpolated into it.                                                    *)

NA == <<"N", "/", "A">>

\* ${row.ClientID || 'N/A'}
KeyOf(c) == IF Truthy(c) THEN ToStr(c) ELSE NA

Err(kind) ==
    [kind |-> kind, ds |-> "", row |-> 0, key |-> <<>>, tok |-> <<>>,
     phase |-> Int2Num(0), a |-> 0, b |-> 0, cols |-> <<>>, ids |-> <<>>]

RowErr(kind, rowIndex, idCell) ==
    [Err(kind) EXCEPT !.row = rowIndex, !.key = KeyOf(idCell)]

-----------------------------------------------------------------------------
(* validateSingleDataset *)

requiredColumns(type) ==
    CASE type = "clients" ->
           <<"ClientID", "ClientName", "PriorityLevel", "RequestedTaskIDs",
             "GroupTag", "AttributesJSON">>
      [] type = "workers" ->
           <<"WorkerID", "WorkerName", "Skills", "AvailableSlots",
             "MaxLoadPerPhase", "WorkerGroup", "QualificationLevel">>
      [] type = "tasks" ->
           <<"TaskID", "TaskName", "Category", "Duration", "RequiredSkills",
             "PreferredPhases", "MaxConcurrent">>

idField(type) ==
    IF type = "clients" THEN "ClientID"
    ELSE IF type = "workers" THEN "WorkerID" ELSE "TaskID"

MissingColumnsError(type, missingColumns) ==
    IF Len(missingColumns) > 0
    THEN <<[Err("MissingColumns") EXCEPT !.ds = type, !.cols = missingColumns]>>
    ELSE <<>>

MissingColumnErrors(data, type) ==
    IF Len(data) > 0
    THEN MissingColumnsError(
             type, SelectSeq(requiredColumns(type), LAMBDA col : col \notin DOMAIN data[1]))
    ELSE <<>>

\* ids.filter((id, index) => id !== undefined && ids.indexOf(id) !== index)
RECURSIVE DuplicatesFrom(_, _)
DuplicatesFrom(ids, index) ==
    IF index > Len(ids) THEN <<>>
    ELSE (IF ids[index] # Undef /\ \E j \in 1..(index - 1) : ids[j] = ids[index]
          THEN <<ids[index]>> ELSE <<>>) \o DuplicatesFrom(ids, index + 1)

DuplicateIdsError(type, duplicateIds) ==
    IF Len(duplicateIds) > 0
    THEN <<[Err("DuplicateIDs") EXCEPT !.ds = type, !.ids = Dedup(duplicateIds)]>>
    ELSE <<>>

DuplicateIdErrors(data, type) ==
    DuplicateIdsError(
        type, DuplicatesFrom([i \in 1..Len(data) |-> Get(data[i], idField(type))], 1))

\* the error of a row when the test failed
RowErrorIf(failed, kind, rowIndex, idCell) ==
    IF failed THEN <<RowErr(kind, rowIndex, idCell)>> ELSE <<>>

\* isNaN(priority) || priority < 1 || priority > 5
IsInvalidPriority(priority) == priority.nan \/ priority.v < 1 \/ priority.v > 5

\* isNaN(n) || n < min
IsBelow(n, min) == n.nan \/ n.v < min

PriorityLevelErrors(row, rowIndex) ==
    RowErrorIf(IsInvalidPriority(ParseIntCell(Get(row, "PriorityLevel"))),
               "InvalidPriorityLevel", rowIndex, Get(row, "ClientID"))

\* attrsJson && typeof attrsJson === 'string' && attrsJson.trim() !== ''
\* and JSON.parse(attrsJson) throws
IsMalformedAttributes(attrsJson) ==
    /\ Truthy(attrsJson)
    /\ attrsJson.t = "str"
    /\ Trim(attrsJson.s) # <<>>
    /\ ~JsonParse(attrsJson.s).ok

AttributesJSONErrors(row, rowIndex) ==
    RowErrorIf(IsMalformedAttributes(Get(row, "AttributesJSON")),
               "MalformedAttributesJSON", rowIndex, Get(row, "ClientID"))

\* slots.some(isNaN) || !slots.every(s => /^[0-9]+$/.test(String(s).trim()))
\* over the parts of the split
IsMalformedSlots(parts) ==
    \/ \E i \in 1..Len(parts) : StringToNumber(parts[i]).nan
    \/ ~\A i \in 1..Len(parts) : DigitsRegexTest(Trim(parts[i]))

AvailableSlotsErrors(row, rowIndex) ==
    IF Truthy(Get(row, "AvailableSlots"))
    THEN RowErrorIf(IsMalformedSlots(Split(ToStr(Get(row, "AvailableSlots")), ",")),
                    "MalformedAvailableSlots", rowIndex, Get(row, "WorkerID"))
    ELSE <<>>

MaxLoadPerPhaseErrors(row, rowIndex) ==
    RowErrorIf(IsBelow(ParseIntCell(Get(row, "MaxLoadPerPhase")), 0),
               "InvalidMaxLoadPerPhase", rowIndex, Get(row, "WorkerID"))

DurationErrors(row, rowIndex) ==
    RowErrorIf(IsBelow(ParseIntCell(Get(row, "Duration")), 1),
               "InvalidDuration", rowIndex, Get(row, "TaskID"))

MaxConcurrentErrors(row, rowIndex) ==
    RowErrorIf(IsBelow(ParseIntCell(Get(row, "MaxConcurrent")), 1),
               "InvalidMaxConcurrent", rowIndex, Get(row, "TaskID"))

NoError == "none"

\* the error of a parsed JSON array of phases
JsonPhasesError(p) ==
    IF ~p.ok THEN "MalformedPreferredPhasesJSONArray"
    ELSE IF IsNumberArray(p) THEN NoError
    ELSE "MalformedPreferredPhasesArray"

\* the error of a trimmed PreferredPhases string
PhasesStringError(phasesString) ==
    IF StartsWith(phasesString, "[") /\ EndsWith(phasesString, "]")
    THEN JsonPhasesError(JsonParse(phasesString))
    ELSE IF RangeRegexTest(phasesString)
    THEN (IF IsRange(MapNumber(Split(phasesString, "-")))
          THEN NoError ELSE "MalformedPreferredPhasesRange")
    ELSE IF ListRegexTest(phasesString)
    THEN (IF \E n \in Range(MapNumber(Split(phasesString, ","))) : n.nan
          THEN "MalformedPreferredPhases" ELSE NoError)
    ELSE "MalformedPreferredPhases"

PhasesError(kind, rowIndex, idCell) ==
    IF kind = NoError THEN <<>> ELSE <<RowErr(kind, rowIndex, idCell)>>

PreferredPhasesErrors(row, rowIndex) ==
    IF Truthy(Get(row, "PreferredPhases"))
    THEN PhasesError(PhasesStringError(Trim(ToStr(Get(row, "PreferredPhases")))),
                     rowIndex, Get(row, "TaskID"))
    ELSE <<>>

RowErrors(row, rowIndex, type) ==
    CASE type = "clients" ->
           PriorityLevelErrors(row, rowIndex) \o AttributesJSONErrors(row, rowIndex)
      [] type = "workers" ->
           AvailableSlotsErrors(row, rowIndex) \o MaxLoadPerPhaseErrors(row, rowIndex)
      [] type = "tasks" ->
           DurationErrors(row, rowIndex) \o MaxConcurrentErrors(row, rowIndex)
             \o PreferredPhasesErrors(row, rowIndex)

validateSingleDataset(data, type) ==
    MissingColumnErrors(data, type)
      \o DuplicateIdErrors(data, type)
      \o ConcatAll([i \in 1..Len(data) |-> RowErrors(data[i], i, type)])

-----------------------------------------------------------------------------
(* Cross-reference validators *)

\* the errors of one row for the tokens that are non-empty and not in known
\* an error for every non-empty token, found or not
TokenErrorsForAll(kind, tokens, known, rowIndex, idCell) ==
    LET unmatched == SelectSeq(tokens, LAMBDA tk : tk # <<>>)
    IN  [i \in 1..Len(unmatched) |->
            [RowErr(kind, rowIndex, idCell) EXCEPT !.tok = unmatched[i]]]

\* requestedIds.forEach(reqId => { if (reqId && !taskIds.has(reqId)) errors.push(...) })
TokenErrors(kind, tokens, known, rowIndex, idCell) ==
    LET unmatched == SelectSeq(tokens, LAMBDA tk : tk # <<>> /\ tk \notin known)
    IN  [i \in 1..Len(unmatched) |->
            [RowErr(kind, rowIndex, idCell) EXCEPT !.tok = unmatched[i]]]

validateClientTaskRelationship(clients, tasks) ==
    LET taskIds == {ToStr(Get(tasks[i], "TaskID")) : i \in 1..Len(tasks)}
        rowErrs(i) ==
            IF Truthy(Get(clients[i], "RequestedTaskIDs"))
            THEN TokenErrors("TaskNotFound",
                             MapTrim(Split(ToStr(Get(clients[i], "RequestedTaskIDs")), ",")),
                             taskIds, i, Get(clients[i], "ClientID"))
            ELSE <<>>
    IN  ConcatAll([i \in 1..Len(clients) |-> rowErrs(i)])

\* the first skill of a worker only
FirstSkillOf(worker) ==
    SubSeq(SelectSeq(MapTrim(Split(ToStr(OrEmpty(Get(worker, "Skills"))), ",")), NonEmpty), 1, 1)

\* String(worker.Skills || '').split(',').map(s => s.trim()).filter(s => s)
SkillsOf(worker) ==
    SelectSeq(MapTrim(Split(ToStr(OrEmpty(Get(worker, "Skills"))), ",")), NonEmpty)

validateTaskWorkerRelationship(tasks, workers) ==
    LET workerSkills == UNION {Range(SkillsOf(workers[i])) : i \in 1..Len(workers)}
        rowErrs(i) ==
            IF Truthy(Get(tasks[i], "RequiredSkills"))
            THEN TokenErrors("SkillNotFound",
                             MapTrim(Split(ToStr(Get(tasks[i], "RequiredSkills")), ",")),
                             workerSkills, i, Get(tasks[i], "TaskID"))
            ELSE <<>>
    IN  ConcatAll([i \in 1..Len(tasks) |-> rowErrs(i)])

-----------------------------------------------------------------------------
(* Capacity validators *)

\* String(x).split(',').map(Number).filter(n => !isNaN(n))
SlotNumbers(s) == SelectSeq(MapNumber(Split(s, ",")), NotNaN)

\* availableSlots.length < maxLoadPerPhase
OverloadErrors(availableSlots, maxLoadPerPhase, rowIndex, idCell) ==
    IF ~maxLoadPerPhase.nan /\ Len(availableSlots) < maxLoadPerPhase.v
    THEN <<[RowErr("Overloaded", rowIndex, idCell)
              EXCEPT !.a = Len(availableSlots), !.b = maxLoadPerPhase.v]>>
    ELSE <<>>

OverloadedWorkerErrors(worker, rowIndex) ==
    IF Truthy(Get(worker, "AvailableSlots")) /\ Get(worker, "MaxLoadPerPhase") # Undef
    THEN OverloadErrors(SlotNumbers(ToStr(Get(worker, "AvailableSlots"))),
                        ParseIntCell(Get(worker, "MaxLoadPerPhase")),
                        rowIndex, Get(worker, "WorkerID"))
    ELSE <<>>

validateOverloadedWorkers(workers) ==
    ConcatAll([i \in 1..Len(workers) |-> OverloadedWorkerErrors(workers[i], i)])

\* availableSlots.forEach(phase => phaseCapacities[phase] = (... || 0) + load)
RECURSIVE AddSlots(_, _, _)
AddSlots(caps, slots, load) ==
    IF slots = <<>> THEN caps
    ELSE AddSlots(Bump(caps, slots[1].v, load), Tail(slots), load)

\* workers.forEach(worker => ...): the phaseCapacities object
RECURSIVE PhaseCapacitiesFrom(_, _, _)
PhaseCapacitiesFrom(caps, workers, i) ==
    IF i > Len(workers) THEN caps
    ELSE PhaseCapacitiesFrom(
             AddSlots(caps,
                      SlotNumbers(ToStr(OrEmpty(Get(workers[i], "AvailableSlots")))),
                      NumOrZero(ParseIntCell(Get(workers[i], "MaxLoadPerPhase")))),
             workers, i + 1)

phaseCapacities(workers) == PhaseCapacitiesFrom(EmptyObject, workers, 1)

\* parsePreferredPhases(String(task.PreferredPhases || ''))
PreferredPhasesOf(task) ==
    parsePreferredPhases(ToStr(OrEmpty(Get(task, "PreferredPhases"))))

\* parseInt(String(task.Duration || '')) || 0
DurationOf(task) == NumOrZero(ParseIntCell(Get(task, "Duration")))

\* Array.from(allPhases).sort((a, b) => a - b).  With a NaN among the
\* phases the comparator is inconsistent and the order is implementation
\* defined; NaN arises only from a PreferredPhases of the shape \d,\d and
\* is put last here.
\* the fraction of a number in units of 10^-digits
FracScaled(n, digits) ==
    IF n.frac = <<>> THEN 0
    ELSE (IF n.frac[1] = "-" THEN 0 - 1 ELSE 1)
           * DigitsValue(Tail(n.frac)) * 10^(digits + 1 - Len(n.frac))

\* a - b <= 0
NumLessEq(a, b) ==
    \/ a.v < b.v
    \/ a.v = b.v /\ FracScaled(a, Len(a.frac) + Len(b.frac))
                       <= FracScaled(b, Len(a.frac) + Len(b.frac))

RECURSIVE SortPhases(_)
SortPhases(S) ==
    IF S = {} THEN <<>>
    ELSE IF \E p \in S : ~p.nan
         THEN LET m == CHOOSE p \in S : ~p.nan /\ \A q \in S : q.nan \/ NumLessEq(p, q)
              IN  <<m>> \o SortPhases(S \ {m})
         ELSE <<NaN>>

\* tasks.forEach(task => { if (preferredPhases.includes(phase)) total += duration })
RECURSIVE TotalTaskDurationInPhase(_, _, _)
TotalTaskDurationInPhase(tasks, phase, i) ==
    IF i > Len(tasks) THEN 0
    ELSE (IF phase \in Range(PreferredPhasesOf(tasks[i])) THEN DurationOf(tasks[i]) ELSE 0)
           + TotalTaskDurationInPhase(tasks, phase, i + 1)

\* phaseCapacities[phase] || 0
AvailableCapacity(caps, phase) ==
    IF ~phase.nan /\ phase.frac = <<>> /\ phase.v \in DOMAIN caps
    THEN caps[phase.v] ELSE 0

\* PhaseError with the comparison weakened to >=
PhaseErrorAtLeast(phase, totalTaskDurationInPhase, availableCapacity) ==
    IF totalTaskDurationInPhase >= availableCapacity
    THEN <<[Err("PhaseSaturation") EXCEPT !.phase = phase,
                                          !.a = totalTaskDurationInPhase,
                                          !.b = availableCapacity]>>
    ELSE <<>>

\* if (totalTaskDurationInPhase > availableCapacity) errors.push(...)
PhaseError(phase, totalTaskDurationInPhase, availableCapacity) ==
    IF totalTaskDurationInPhase > availableCapacity
    THEN <<[Err("PhaseSaturation") EXCEPT !.phase = phase,
                                          !.a = totalTaskDurationInPhase,
                                          !.b = availableCapacity]>>
    ELSE <<>>

PhaseErrors(tasks, caps, phase) ==
    PhaseError(phase, TotalTaskDurationInPhase(tasks, phase, 1),
               AvailableCapacity(caps, phase))

\* the set allPhases
AllPhases(tasks) == UNION {Range(PreferredPhasesOf(tasks[i])) : i \in 1..Len(tasks)}

SaturationErrors(tasks, caps, sortedPhases) ==
    ConcatAll([k \in 1..Len(sortedPhases) |-> PhaseErrors(tasks, caps, sortedPhases[k])])

validatePhaseSlotSaturation(tasks, workers) ==
    SaturationErrors(tasks, phaseCapacities(workers), SortPhases(AllPhases(tasks)))

\* skills.forEach(skill => skillToWorkerCount[skill] = (... || 0) + 1)
RECURSIVE AddSkills(_, _)
AddSkills(counts, skills) ==
    IF skills = <<>> THEN counts
    ELSE AddSkills(Bump(counts, skills[1], 1), Tail(skills))

RECURSIVE SkillToWorkerCountFrom(_, _, _)
SkillToWorkerCountFrom(counts, workers, i) ==
    IF i > Len(workers) THEN counts
    ELSE SkillToWorkerCountFrom(AddSkills(counts, SkillsOf(workers[i])), workers, i + 1)

skillToWorkerCount(workers) == SkillToWorkerCountFrom(EmptyObject, workers, 1)

\* requiredSkills.every(skill => (skillToWorkerCount[skill] || 0) >= maxConcurrent)
CanMeetConcurrency(requiredSkills, maxConcurrent, counts) ==
    \A k \in 1..Len(requiredSkills) :
        ~(\/ requiredSkills[k] \notin DOMAIN counts
          \/ counts[requiredSkills[k]] < maxConcurrent)

ConcurrencyErrors(requiredSkills, maxConcurrent, counts, rowIndex, idCell) ==
    IF /\ ~maxConcurrent.nan
       /\ maxConcurrent.v > 0
       /\ ~CanMeetConcurrency(requiredSkills, maxConcurrent.v, counts)
    THEN <<[RowErr("ConcurrencyInfeasible", rowIndex, idCell) EXCEPT !.a = maxConcurrent.v]>>
    ELSE <<>>

TaskConcurrencyErrors(task, counts, rowIndex) ==
    IF Truthy(Get(task, "RequiredSkills")) /\ Get(task, "MaxConcurrent") # Undef
    THEN ConcurrencyErrors(MapTrim(Split(ToStr(Get(task, "RequiredSkills")), ",")),
                           ParseIntCell(Get(task, "MaxConcurrent")),
                           counts, rowIndex, Get(task, "TaskID"))
    ELSE <<>>

ConcurrencyErrorsOf(tasks, counts) ==
    ConcatAll([i \in 1..Len(tasks) |-> TaskConcurrencyErrors(tasks[i], counts, i)])

validateMaxConcurrencyFeasibility(tasks, workers) ==
    ConcurrencyErrorsOf(tasks, skillToWorkerCount(workers))

\* a placeholder that reports the Duration cell of each task it is given
ReportsEachTask(tasks) ==
    [i \in 1..Len(tasks) |-> RowErr("CoRunGroup", i, Get(tasks[i], "Duration"))]

\* placeholders that report nothing
validateCircularCoRunGroups(tasks) == <<>>
validateConflictingRules(tasks) == <<>>

-----------------------------------------------------------------------------
(* The validation pass: the body of the callback of triggerFullValidation  *)

EmptyReport == [k \in {} |-> <<>>]

\* an aggregator that assigns instead of appending:
\* if (errs.length > 0) allErrors[key] = errs
WithErrorsReplacing(allErrors, key, errs) ==
    IF Len(errs) > 0 THEN (key :> errs) @@ allErrors ELSE allErrors

\* an aggregator without the length test:
\* allErrors[key] = [...(allErrors[key] || []), ...errs]
WithErrorsUnguarded(allErrors, key, errs) ==
    (key :> ((IF key \in DOMAIN allErrors THEN allErrors[key] ELSE <<>>) \o errs))
        @@ allErrors

\* if (errs.length > 0) allErrors[key] = [...(allErrors[key] || []), ...errs]
WithErrors(allErrors, key, errs) ==
    IF Len(errs) > 0
    THEN (key :> ((IF key \in DOMAIN allErrors THEN allErrors[key] ELSE <<>>) \o errs))
           @@ allErrors
    ELSE allErrors

\* the allErrors object after the ten validators have reported
AllErrors(clientErrors, workerErrors, taskErrors, clientTaskErrors, taskWorkerErrors, overloadedWorkerErrors, phaseSaturationErrors, maxConcurrencyErrors, circularCoRunErrors, conflictingRulesErrors) ==
    WithErrors(
     WithErrors(
      WithErrors(
       WithErrors(
        WithErrors(
         WithErrors(
          WithErrors(
           WithErrors(
            WithErrors(
             WithErrors(EmptyReport, "clients", clientErrors),
             "workers", workerErrors),
            "tasks", taskErrors),
           "clients", clientTaskErrors),
          "tasks", taskWorkerErrors),
         "workers", overloadedWorkerErrors),
        "tasks", phaseSaturationErrors),
       "tasks", maxConcurrencyErrors),
      "tasks", circularCoRunErrors),
     "tasks", conflictingRulesErrors)

\* the locals of the callback when it has run
PassLocals(allClientsData, allWorkersData, allTasksData, clientErrors, workerErrors, taskErrors, clientTaskErrors, taskWorkerErrors, overloadedWorkerErrors, phaseSaturationErrors, maxConcurrencyErrors, circularCoRunErrors, conflictingRulesErrors) ==
    [ran |-> TRUE,
     allClientsData |-> allClientsData,
     allWorkersData |-> allWorkersData,
     allTasksData |-> allTasksData,
     clientErrors |-> clientErrors,
     workerErrors |-> workerErrors,
     taskErrors |-> taskErrors,
     clientTaskErrors |-> clientTaskErrors,
     taskWorkerErrors |-> taskWorkerErrors,
     overloadedWorkerErrors |-> overloadedWorkerErrors,
     phaseSaturationErrors |-> phaseSaturationErrors,
     maxConcurrencyErrors |-> maxConcurrencyErrors,
     allErrors |-> AllErrors(clientErrors, workerErrors, taskErrors, clientTaskErrors,
                             taskWorkerErrors, overloadedWorkerErrors,
                             phaseSaturationErrors, maxConcurrencyErrors,
                             circularCoRunErrors, conflictingRulesErrors)]

ValidationPass(allClientsData, allWorkersData, allTasksData, staleTasksData) ==
    PassLocals(
        allClientsData, allWorkersData, allTasksData,
        validateSingleDataset(allClientsData, "clients"),
        validateSingleDataset(allWorkersData, "workers"),
        validateSingleDataset(allTasksData, "tasks"),
        IF Len(allClientsData) > 0 /\ Len(allTasksData) > 0
        THEN validateClientTaskRelationship(allClientsData, allTasksData) ELSE <<>>,
        IF Len(allTasksData) > 0 /\ Len(allWorkersData) > 0
        THEN validateTaskWorkerRelationship(allTasksData, allWorkersData) ELSE <<>>,
        validateOverloadedWorkers(allWorkersData),
        validatePhaseSlotSaturation(allTasksData, allWorkersData),
        validateMaxConcurrencyFeasibility(allTasksData, allWorkersData),
        validateCircularCoRunGroups(staleTasksData),
        validateConflictingRules(staleTasksData))

NoPass ==
    [ran |-> FALSE, allClientsData |-> <<>>, allWorkersData |-> <<>>,
     allTasksData |-> <<>>, clientErrors |-> <<>>, workerErrors |-> <<>>,
     taskErrors |-> <<>>, clientTaskErrors |-> <<>>, taskWorkerErrors |-> <<>>,
     overloadedWorkerErrors |-> <<>>, phaseSaturationErrors |-> <<>>,
     maxConcurrencyErrors |-> <<>>, allErrors |-> EmptyReport]

\* the datasets a pass was given as clients, workers and tasks
PassInputs(p) ==
    [clientsData |-> p.allClientsData, workersData |-> p.allWorkersData,
     tasksData |-> p.allTasksData]

\* history: a pass is given the datasets that the pass before it was given
Again(before, pass) == before.ran /\ PassInputs(pass) = PassInputs(before)

\* the toast that ends a pass
PassToast(p) ==
    IF \E key \in DOMAIN p.allErrors : Len(p.allErrors[key]) > 0
    THEN "error: Validation errors found"
    ELSE IF Len(p.allClientsData) > 0 \/ Len(p.allWorkersData) > 0
              \/ Len(p.allTasksData) > 0
         THEN "success: All data validated successfully"
         ELSE "none"

-----------------------------------------------------------------------------
(* The rows the datasets are drawn from.  CSV cells are strings, XLSX and   *)
(* AI-supplied cells may be numbers.                                        *)

MaxRows == 2
MaxClientRows == 3

S1 == <<"1">>
PYTHON == <<"p", "y", "t", "h", "o", "n">>
JS == <<"j", "s">>
ID(letter, digit) == Str(<<letter, digit>>)

Client(clientId, priority, requested, attrs) ==
    [ClientID |-> clientId, ClientName |-> Str(<<"n">>), PriorityLevel |-> priority,
     RequestedTaskIDs |-> requested, GroupTag |-> Str(<<"g">>), AttributesJSON |-> attrs]

Worker(workerId, skills, slots, maxLoad) ==
    [WorkerID |-> workerId, WorkerName |-> Str(<<"n">>), Skills |-> skills,
     AvailableSlots |-> slots, MaxLoadPerPhase |-> maxLoad,
     WorkerGroup |-> Str(<<"g">>), QualificationLevel |-> Str(S1)]

Task(taskId, duration, skills, phases, maxConcurrent) ==
    [TaskID |-> taskId, TaskName |-> Str(<<"n">>), Category |-> Str(<<"c">>),
     Duration |-> duration, RequiredSkills |-> skills, PreferredPhases |-> phases,
     MaxConcurrent |-> maxConcurrent]

ClientRows ==
    << Client(ID("C", "1"), Num(3), Str(<<"T", "2">>), Str(<<>>)),
       Client(ID("C", "1"), Str(<<"7">>), Str(<<"T", "1", ",", "T", "9">>), Str(<<"{", "a">>)),
       Client(ID("C", "2"), Str(<<"3">>), Str(<<"T", "3", ",", " ", ",", " ", "T", "4">>),
              Str(<<"{", "\"", "a", "\"", ":", "1", "}">>)),
       Client(ID("C", "1"), Str(<<"3", "x">>), Str(<<>>), Str(<<"{", "a">>)) >>

WorkerRows ==
    << Worker(ID("W", "1"), Str(PYTHON), Str(S1), Num(2)),
       Worker(ID("W", "2"), Str(PYTHON), Str(<<"1", ",", "2", ",", "3">>), Str(S1)),
       Worker(ID("W", "3"), Str(PYTHON \o <<",">> \o PYTHON), Str(<<"1", ",", "1">>), Num(2)),
       Worker(ID("W", "4"), Str(JS \o <<",", " ", "g", "o">>), Str(<<>>), Str(<<"2">>)),
       Worker(ID("W", "4"), Str(JS), Str(<<"2">>), Num(0)) >>

TaskRows ==
    << Task(ID("T", "1"), Num(5), Str(PYTHON), Str(S1), Num(2)),
       Task(ID("T", "2"), Str(S1), Str(PYTHON), Str(<<"[", "1", ",", "2", ",", "3", "]">>), Str(S1)),
       Task(ID("T", "3"), Str(S1), Str(<<>>), Str(<<"1", "-", "3">>), Str(S1)),
       Task(ID("T", "4"), Str(S1), Str(JS \o <<",", " ", "g", "o">>), Str(<<"1", ",", "2", ",", "3">>), Str(S1)),
       Task(ID("T", "5"), Str(<<"3">>), Str(PYTHON \o <<",">>), Str(<<"[", "1", ",", "1", "]">>), Str(S1)),
       Task(ID("T", "6"), Num(2), Str(PYTHON), Num(1), Str(<<"2">>)),
       Task(ID("T", "1"), Str(<<"2">>), Str(<<>>), Str(<<"\\", "d", "-", "\\", "d">>), Str(S1)),
       Task(ID("T", "8"), Str(S1), Str(<<>>), Str(<<"[", "1", ".", "5", "]">>), Str(S1)),
       Task(ID("U", "1"), Str(S1), Str(<<>>), Str(<<"[", "1", ",", "\"", "a", "\"", "]">>), Str(S1)),
       Task(ID("U", "2"), Str(S1), Str(<<>>), Str(<<"3", "-", "1">>), Str(S1)),
       Task(ID("U", "3"), Str(S1), Str(<<>>), Str(<<"1", ",", ",", "3">>), Str(<<"x">>)) >>

\* results.data.map((row, index) => ({ id: index, ...row }))
WithIds(rows) == [i \in 1..Len(rows) |-> rows[i] @@ ("id" :> Num(i - 1))]

\* the rows of pool at the indices of I, in pool order
RECURSIVE Pick(_, _, _)
Pick(pool, I, i) ==
    IF i > Len(pool) THEN <<>>
    ELSE (IF i \in I THEN <<pool[i]>> ELSE <<>>) \o Pick(pool, I, i + 1)

\* the row collections of at most max rows of a pool
Collections(pool, max) ==
    {Pick(pool, I, 1) : I \in {J \in SUBSET (1..Len(pool)) : Cardinality(J) <= max}}

Datasets(pool, max) == {WithIds(rows) : rows \in Collections(pool, max)}

-----------------------------------------------------------------------------
(* The engine alone: a pass over three datasets drawn from the pools *)

NoCorrections ==
    [present |-> FALSE, has |-> {}, clientsData |-> <<>>, workersData |-> <<>>,
     tasksData |-> <<>>]
NoFile == [name |-> <<>>, rows |-> <<>>]
NoSnap == [clientsData |-> <<>>, workersData |-> <<>>, tasksData |-> <<>>]
NoFiles == [clients |-> NoFile, workers |-> NoFile, tasks |-> NoFile]
IdleUpload == [pc |-> "idle", snap |-> NoSnap, files |-> NoFiles]

\* no request is being handled by the server, no extraction is running
NoRequest == [pc |-> "none"]
NoExtraction == [pc |-> "none"]
ServerIdle == post = NoRequest /\ extraction = NoExtraction

\* the arguments of the triggerFullValidation call behind a pass, and the
\* datasets its caller had just computed
NoCall == [fileName |-> <<>>, updated |-> NoSnap]

HostIdle ==
    /\ suggestedCorrections = NoCorrections
    /\ isUploading = FALSE
    /\ loadingErrorCorrection = FALSE
    /\ clientsFile = NoFile
    /\ workersFile = NoFile
    /\ tasksFile = NoFile
    /\ upload = IdleUpload
    /\ readers = <<>>
    /\ timers = <<>>
    /\ toasts = {}
    /\ commands = 0
    /\ loadingNlDataModification = FALSE
    /\ nlClosure = NoSnap
    /\ held = {[clientsData |-> clientsData, workersData |-> workersData, tasksData |-> tasksData]}

hostVars == <<suggestedCorrections, isUploading, loadingErrorCorrection,
              clientsFile, workersFile, tasksFile, upload, readers, timers,
              toasts, commands, loadingNlDataModification, nlClosure, held,
              post, extraction>>

InitEngine ==
    /\ clientsData \in Datasets(ClientRows, MaxClientRows)
    /\ workersData \in Datasets(WorkerRows, MaxRows)
    /\ tasksData \in Datasets(TaskRows, MaxRows)
    /\ validationErrors = EmptyReport
    /\ lastPass = [pass |-> NoPass, call |-> NoCall, again |-> FALSE]
    /\ HostIdle
    /\ ServerIdle

\* one full validation of the three datasets
RunValidation ==
    /\ ~lastPass.pass.ran
    /\ lastPass' = [pass |-> ValidationPass(clientsData, workersData, tasksData, tasksData),
                    call |-> NoCall, again |-> FALSE]
    /\ validationErrors' = lastPass'.pass.allErrors
    /\ UNCHANGED <<clientsData, workersData, tasksData>>
    /\ UNCHANGED hostVars

NextEngine == RunValidation

SpecEngine == InitEngine /\ [][NextEngine]_vars

-----------------------------------------------------------------------------
(* The host: the Home component.  A handler or callback reads the state  *)
(* of the render that created it: the closure of a pending callback holds  *)
(* the datasets as they were when its handler was invoked.                 *)

MaxPending == 1
MaxCommands == 3

Kinds == {"clients", "workers", "tasks"}
CSV == ".csv"
XLSX == ".xlsx"
BatchUpload == <<"batch-upload">>
AppliedCorrections == <<"applied-corrections">>
DataModificationTrigger == <<"data-modification-trigger">>
\* the pass of a cell edit is not behind a triggerFullValidation call
RowUpdate == <<"row-update">>

\* fileName.includes(word), for a name written as a sequence of parts
NameIncludes(name, word) == word \in Range(name)
\* file.name.endsWith(ext)
NameEndsWith(name, ext) == name # <<>> /\ name[Len(name)] = ext

\* the files the user can choose in each input
FilesFor(kind) ==
    CASE kind = "clients" ->
           { [name |-> <<"clients", CSV>>, rows |-> <<ClientRows[2]>>] }
      [] kind = "workers" ->
           { [name |-> <<"workers", XLSX>>, rows |-> <<WorkerRows[1]>>] }
      [] kind = "tasks" ->
           { [name |-> <<"tasks", CSV>>,
              rows |-> <<[c \in DOMAIN TaskRows[1] |-> Str(ToStr(TaskRows[1][c]))]>>] }

\* the bodies the correction service can answer with
CorrectionResponses ==
    { [present |-> TRUE, has |-> {"clients"}, clientsData |-> <<ClientRows[1]>>,
       workersData |-> <<>>, tasksData |-> <<>>],
      [present |-> TRUE, has |-> Kinds, clientsData |-> <<ClientRows[1]>>,
       workersData |-> <<WorkerRows[2]>>, tasksData |-> <<TaskRows[2]>>],
      [present |-> TRUE, has |-> {}, clientsData |-> <<>>,
       workersData |-> <<>>, tasksData |-> <<>>] }

Snapshot == [clientsData |-> clientsData, workersData |-> workersData,
             tasksData |-> tasksData]
SelectedFiles == [clients |-> clientsFile, workers |-> workersFile, tasks |-> tasksFile]

Absent == [given |-> FALSE, data |-> <<>>]
Given(data) == [given |-> TRUE, data |-> data]
\* override || state
OrState(override, state) == IF override.given THEN override.data ELSE state

Timer(kind, delay) ==
    [kind |-> kind, delay |-> delay, fileName |-> <<>>, snap |-> NoSnap,
     clientsDataOverride |-> Absent, workersDataOverride |-> Absent,
     tasksDataOverride |-> Absent, type |-> "none", newRow |-> EmptyObject,
     updated |-> NoSnap]

\* setTimeout(() => { ...the validation... }, 0) of triggerFullValidation
ValidationTimer(fileName, snap, co, wo, to, updated) ==
    [Timer("validate", 0) EXCEPT !.fileName = fileName, !.snap = snap,
                                 !.clientsDataOverride = co,
                                 !.workersDataOverride = wo,
                                 !.tasksDataOverride = to,
                                 !.updated = updated]

Remove(seq, i) == SubSeq(seq, 1, i - 1) \o SubSeq(seq, i + 1, Len(seq))

\* a timer runs after every timer scheduled before it with a delay that is
\* not longer
CanFire(i) ==
    /\ i \in 1..Len(timers)
    /\ \A j \in 1..(i - 1) : timers[j].delay > timers[i].delay

\* the callbacks that have not run yet: timers, reader onloads and the
\* continuations of the two fetches
Pending ==
    Len(timers) + Len(readers) + (IF loadingErrorCorrection THEN 1 ELSE 0)
        + (IF loadingNlDataModification THEN 1 ELSE 0)

\* handleFileChange
HandleFileChange(kind, f) ==
    /\ CASE kind = "clients" ->
              clientsFile # f /\ clientsFile' = f /\ UNCHANGED <<workersFile, tasksFile>>
         [] kind = "workers" ->
              workersFile # f /\ workersFile' = f /\ UNCHANGED <<clientsFile, tasksFile>>
         [] kind = "tasks" ->
              tasksFile # f /\ tasksFile' = f /\ UNCHANGED <<clientsFile, workersFile>>
    /\ Pending < MaxPending
    /\ toasts' = {}
    /\ UNCHANGED <<clientsData, workersData, tasksData, validationErrors,
                   suggestedCorrections, isUploading, loadingErrorCorrection,
                   upload, readers, timers, lastPass, commands>>
    /\ UNCHANGED <<loadingNlDataModification, nlClosure>>
    /\ held' = held \cup {[clientsData |-> clientsData', workersData |-> workersData', tasksData |-> tasksData']}
    /\ UNCHANGED <<post, extraction>>

StageOrder == <<"clients", "workers", "tasks">>
StageIndex(pc) == CHOOSE k \in 0..3 : (k = 0 /\ pc \notin Kinds) \/ (k > 0 /\ StageOrder[k] = pc)

\* the next input that has a file, after stage k of handleUpload
NextStages(files, k) == {j \in (k + 1)..3 : files[StageOrder[j]] # NoFile}

\* parseFile: a reader is started for a .csv or .xlsx file
ReadersAfterParse(file, setter, snap) ==
    IF NameEndsWith(file.name, CSV) \/ NameEndsWith(file.name, XLSX)
    THEN Append(readers, [file |-> file, setter |-> setter, snap |-> snap])
    ELSE readers

\* handleUpload from stage k on: parse the next file and await its 100 ms
\* timer, or schedule the batch validation and finish
ContinueUpload(snap, files, k, remaining) ==
    IF NextStages(files, k) # {}
    THEN LET j == CHOOSE m \in NextStages(files, k) : \A n \in NextStages(files, k) : m <= n
         IN  /\ readers' = ReadersAfterParse(files[StageOrder[j]], StageOrder[j], snap)
             /\ timers' = Append(remaining, Timer("resolve", 100))
             /\ upload' = [pc |-> StageOrder[j], snap |-> snap, files |-> files]
             /\ isUploading' = TRUE
    ELSE /\ timers' = Append(remaining, [Timer("batch", 300) EXCEPT !.snap = snap])
         /\ upload' = IdleUpload
         /\ isUploading' = FALSE
         /\ UNCHANGED readers

\* handleUpload up to its first await (the button is disabled while
\* isUploading)
HandleUpload ==
    /\ ~isUploading
    /\ upload.pc = "idle"
    /\ \E kind \in Kinds : SelectedFiles[kind] # NoFile
    /\ Pending < MaxPending
    /\ commands < MaxCommands
    /\ commands' = commands + 1
    /\ validationErrors' = EmptyReport
    /\ ContinueUpload(Snapshot, SelectedFiles, 0, timers)
    /\ toasts' = {}
    /\ UNCHANGED <<clientsData, workersData, tasksData, suggestedCorrections,
                   loadingErrorCorrection, clientsFile, workersFile, tasksFile,
                   lastPass>>
    /\ UNCHANGED <<loadingNlDataModification, nlClosure>>
    /\ held' = held \cup {[clientsData |-> clientsData', workersData |-> workersData', tasksData |-> tasksData']}
    /\ UNCHANGED <<post, extraction>>

\* setTimeout(resolve, 100) fires: handleUpload resumes after its await
ResumeUpload(i) ==
    /\ CanFire(i)
    /\ timers[i].kind = "resolve"
    /\ ContinueUpload(upload.snap, upload.files, StageIndex(upload.pc), Remove(timers, i))
    /\ toasts' = {}
    /\ UNCHANGED <<clientsData, workersData, tasksData, validationErrors,
                   suggestedCorrections, loadingErrorCorrection, clientsFile,
                   workersFile, tasksFile, lastPass, commands>>
    /\ UNCHANGED <<loadingNlDataModification, nlClosure>>
    /\ held' = held \cup {[clientsData |-> clientsData', workersData |-> workersData', tasksData |-> tasksData']}
    /\ UNCHANGED <<post, extraction>>

\* the dataset states after setter(parsedData) and then
\* triggerFullValidation(file.name, parsedData), which sets by file name
AfterLoad(kind, current, setter, name, parsedData) ==
    LET byName == IF NameIncludes(name, "clients") THEN "clients"
                  ELSE IF NameIncludes(name, "workers") THEN "workers"
                  ELSE IF NameIncludes(name, "tasks") THEN "tasks"
                  ELSE "none"
    IN  IF kind = byName \/ kind = setter THEN parsedData ELSE current

\* reader.onload of parseFile
ReaderOnload(i) ==
    /\ i \in 1..Len(readers)
    /\ LET r == readers[i]
           parsedData == WithIds(r.file.rows)
       IN  /\ clientsData' = AfterLoad("clients", clientsData, r.setter, r.file.name, parsedData)
           /\ workersData' = AfterLoad("workers", workersData, r.setter, r.file.name, parsedData)
           /\ tasksData' = AfterLoad("tasks", tasksData, r.setter, r.file.name, parsedData)
           /\ timers' = Append(timers, ValidationTimer(r.file.name, r.snap, Absent,
                                                       Absent, Absent, NoSnap))
    /\ readers' = Remove(readers, i)
    /\ toasts' = {}
    /\ UNCHANGED <<validationErrors, suggestedCorrections, isUploading,
                   loadingErrorCorrection, clientsFile, workersFile, tasksFile,
                   upload, lastPass, commands>>
    /\ UNCHANGED <<loadingNlDataModification, nlClosure>>
    /\ held' = held \cup {[clientsData |-> clientsData', workersData |-> workersData', tasksData |-> tasksData']}
    /\ UNCHANGED <<post, extraction>>

\* the 300 ms callback of handleUpload
BatchValidation(i) ==
    /\ CanFire(i)
    /\ timers[i].kind = "batch"
    /\ timers' = Append(Remove(timers, i),
                        ValidationTimer(BatchUpload, timers[i].snap, Absent, Absent,
                                        Absent, NoSnap))
    /\ toasts' = {"success: All files uploaded and validated successfully"}
    /\ UNCHANGED <<clientsData, workersData, tasksData, validationErrors,
                   suggestedCorrections, isUploading, loadingErrorCorrection,
                   clientsFile, workersFile, tasksFile, upload, readers, lastPass, commands>>
    /\ UNCHANGED <<loadingNlDataModification, nlClosure>>
    /\ held' = held \cup {[clientsData |-> clientsData', workersData |-> workersData', tasksData |-> tasksData']}
    /\ UNCHANGED <<post, extraction>>

\* the callback of triggerFullValidation: the validation pass
FullValidation(i) ==
    /\ CanFire(i)
    /\ timers[i].kind = "validate"
    /\ LET tm == timers[i]
           pass == ValidationPass(OrState(tm.clientsDataOverride, tm.snap.clientsData),
                                  OrState(tm.workersDataOverride, tm.snap.workersData),
                                  OrState(tm.tasksDataOverride, tm.snap.tasksData),
                                  tm.snap.tasksData)
       IN  /\ lastPass' = [pass |-> pass,
                           call |-> [fileName |-> tm.fileName, updated |-> tm.updated],
                           again |-> Again(lastPass.pass, pass)]
           /\ validationErrors' = lastPass'.pass.allErrors
           /\ toasts' = {PassToast(lastPass'.pass)} \ {"none"}
    /\ timers' = Remove(timers, i)
    /\ UNCHANGED <<clientsData, workersData, tasksData, suggestedCorrections,
                   isUploading, loadingErrorCorrection, clientsFile, workersFile,
                   tasksFile, upload, readers, commands>>
    /\ UNCHANGED <<loadingNlDataModification, nlClosure>>
    /\ held' = held \cup {[clientsData |-> clientsData', workersData |-> workersData', tasksData |-> tasksData']}
    /\ UNCHANGED <<post, extraction>>

\* handleSuggestErrorCorrection up to its fetch (the button is disabled
\* while loading and while validationErrors has no key)
HandleSuggestErrorCorrection ==
    /\ ~loadingErrorCorrection
    /\ DOMAIN validationErrors # {}
    /\ Pending < MaxPending
    /\ loadingErrorCorrection' = TRUE
    /\ suggestedCorrections' = NoCorrections
    /\ toasts' = {}
    /\ UNCHANGED <<clientsData, workersData, tasksData, validationErrors,
                   isUploading, clientsFile, workersFile, tasksFile, upload,
                   readers, timers, lastPass, commands>>
    /\ UNCHANGED <<loadingNlDataModification, nlClosure>>
    /\ held' = held \cup {[clientsData |-> clientsData', workersData |-> workersData', tasksData |-> tasksData']}
    /\ UNCHANGED <<post, extraction>>

\* handleSuggestErrorCorrection after its fetch
SuggestionResponse(corrections) ==
    /\ loadingErrorCorrection
    /\ loadingErrorCorrection' = FALSE
    /\ IF corrections.has # {}
       THEN /\ suggestedCorrections' = corrections
            /\ toasts' = {"success: AI suggested corrections"}
       ELSE /\ UNCHANGED suggestedCorrections
            /\ toasts' = {"warn: AI could not suggest corrections"}
    /\ UNCHANGED <<clientsData, workersData, tasksData, validationErrors,
                   isUploading, clientsFile, workersFile, tasksFile, upload,
                   readers, timers, lastPass, commands>>
    /\ UNCHANGED <<loadingNlDataModification, nlClosure>>
    /\ held' = held \cup {[clientsData |-> clientsData', workersData |-> workersData', tasksData |-> tasksData']}
    /\ UNCHANGED <<post, extraction>>

\* handleApplySuggestedCorrections
HandleApplySuggestedCorrections ==
    /\ suggestedCorrections.present
    /\ Pending < MaxPending
    /\ commands < MaxCommands
    /\ commands' = commands + 1
    /\ LET corrections == suggestedCorrections
           updatedClientsData ==
               IF "clients" \in corrections.has
               THEN WithIds(corrections.clientsData) ELSE clientsData
           updatedWorkersData ==
               IF "workers" \in corrections.has
               THEN WithIds(corrections.workersData) ELSE workersData
           updatedTasksData ==
               IF "tasks" \in corrections.has
               THEN WithIds(corrections.tasksData) ELSE tasksData
       IN  /\ clientsData' = updatedClientsData
           /\ workersData' = updatedWorkersData
           /\ tasksData' = updatedTasksData
           \* triggerFullValidation("applied-corrections", updatedClientsData,
           \*   updatedWorkersData, updatedTasksData): the parameters are
           \*   (fileName, currentData, clientsDataOverride, workersDataOverride,
           \*   tasksDataOverride)
           /\ timers' = Append(timers,
                  ValidationTimer(AppliedCorrections, Snapshot,
                                  Given(updatedWorkersData), Given(updatedTasksData),
                                  Absent,
                                  [clientsData |-> updatedClientsData,
                                   workersData |-> updatedWorkersData,
                                   tasksData |-> updatedTasksData]))
    /\ suggestedCorrections' = NoCorrections
    /\ toasts' = {"success: Suggested corrections applied"}
    /\ UNCHANGED <<validationErrors, isUploading, loadingErrorCorrection,
                   clientsFile, workersFile, tasksFile, upload, readers, lastPass>>
    /\ UNCHANGED <<loadingNlDataModification, nlClosure>>
    /\ held' = held \cup {[clientsData |-> clientsData', workersData |-> workersData', tasksData |-> tasksData']}
    /\ UNCHANGED <<post, extraction>>

\* the datasets in a snapshot, by kind
DataOf(snap, kind) ==
    CASE kind = "clients" -> snap.clientsData
      [] kind = "workers" -> snap.workersData
      [] kind = "tasks" -> snap.tasksData

\* prev.map((row) => (row.id === newRow.id ? newRow : row))
MapRow(data, newRow) ==
    [i \in 1..Len(data) |-> IF data[i].id = newRow.id THEN newRow ELSE data[i]]

\* setter(prev => prev.map(...)) of processRowUpdate, for the dataset of kind
SetRow(type, kind, prev, newRow) == IF type = kind THEN MapRow(prev, newRow) ELSE prev

\* allClientsData, allWorkersData and allTasksData of the callback of
\* processRowUpdate, given unchanged
AllDataWithoutEdit(type, kind, data, newRow) == data

\* allClientsData, allWorkersData and allTasksData of the callback of
\* processRowUpdate: type === kind ? data.map(...) : data
AllData(type, kind, data, newRow) == IF type = kind THEN MapRow(data, newRow) ELSE data

\* the cells the user can type into a grid
CellEdits(type) ==
    CASE type = "clients" -> { [field |-> "PriorityLevel", value |-> Str(<<"3">>)] }
      [] type = "workers" -> { [field |-> "AvailableSlots", value |-> Str(<<"1", ",", "2">>)] }
      [] type = "tasks" -> { [field |-> "Duration", value |-> Str(<<"0">>)] }

\* the rows a grid can hand to processRowUpdate: a row with one cell changed
EditedRows(type, data) ==
    UNION {{[data[i] EXCEPT ![e.field] = e.value] :
               e \in {c \in CellEdits(type) : c.field \in DOMAIN data[i]}} :
           i \in 1..Len(data)}
        \ Range(data)

\* processRowUpdate
ProcessRowUpdate(type, newRow) ==
    /\ Pending < MaxPending
    /\ commands < MaxCommands
    /\ commands' = commands + 1
    /\ clientsData' = SetRow(type, "clients", clientsData, newRow)
    /\ workersData' = SetRow(type, "workers", workersData, newRow)
    /\ tasksData' = SetRow(type, "tasks", tasksData, newRow)
    /\ timers' = Append(timers,
           [Timer("row-validate", 0) EXCEPT
               !.snap = Snapshot, !.type = type, !.newRow = newRow,
               !.updated = [clientsData |-> SetRow(type, "clients", clientsData, newRow),
                            workersData |-> SetRow(type, "workers", workersData, newRow),
                            tasksData |-> SetRow(type, "tasks", tasksData, newRow)]])
    /\ toasts' = {}
    /\ UNCHANGED <<validationErrors, suggestedCorrections, isUploading,
                   loadingErrorCorrection, clientsFile, workersFile, tasksFile,
                   upload, readers, lastPass, loadingNlDataModification, nlClosure>>
    /\ held' = held \cup {[clientsData |-> clientsData', workersData |-> workersData', tasksData |-> tasksData']}
    /\ UNCHANGED <<post, extraction>>

\* the callback of processRowUpdate: the validation pass
RowValidation(i) ==
    /\ CanFire(i)
    /\ timers[i].kind = "row-validate"
    /\ LET tm == timers[i]
           pass == ValidationPass(
                       AllData(tm.type, "clients", tm.snap.clientsData, tm.newRow),
                       AllData(tm.type, "workers", tm.snap.workersData, tm.newRow),
                       AllData(tm.type, "tasks", tm.snap.tasksData, tm.newRow),
                       tm.snap.tasksData)
       IN  /\ lastPass' = [pass |-> pass,
                           call |-> [fileName |-> RowUpdate, updated |-> tm.updated],
                           again |-> Again(lastPass.pass, pass)]
           /\ validationErrors' = lastPass'.pass.allErrors
           /\ toasts' = {PassToast(lastPass'.pass)} \ {"none"}
    /\ timers' = Remove(timers, i)
    /\ UNCHANGED <<clientsData, workersData, tasksData, suggestedCorrections,
                   isUploading, loadingErrorCorrection, clientsFile, workersFile,
                   tasksFile, upload, readers, commands,
                   loadingNlDataModification, nlClosure>>
    /\ held' = held \cup {[clientsData |-> clientsData', workersData |-> workersData', tasksData |-> tasksData']}
    /\ UNCHANGED <<post, extraction>>

\* the bodies the data modification service can answer with: an object of
\* datasets, a single array (legacy format), or no modifiedData
NlModificationResponses ==
    { [format |-> "object", has |-> {"tasks"}, clientsData |-> <<>>,
       workersData |-> <<>>, tasksData |-> <<TaskRows[3]>>, rows |-> <<>>],
      [format |-> "array", has |-> {}, clientsData |-> <<>>, workersData |-> <<>>,
       tasksData |-> <<>>, rows |-> <<ClientRows[3]>>],
      [format |-> "none", has |-> {}, clientsData |-> <<>>, workersData |-> <<>>,
       tasksData |-> <<>>, rows |-> <<>>] }

\* the dataset the legacy format replaces: the first one the closure holds rows of
LegacyTarget(snap) ==
    IF Len(snap.clientsData) > 0 THEN "clients"
    ELSE IF Len(snap.workersData) > 0 THEN "workers"
    ELSE IF Len(snap.tasksData) > 0 THEN "tasks"
    ELSE "none"

\* the datasets handleNlDataModification sets from a response
ModifiedKinds(body, snap) ==
    CASE body.format = "object" -> body.has
      [] body.format = "array" -> {LegacyTarget(snap)} \cap Kinds
      [] OTHER -> {}

\* the dataset of kind after handleNlDataModification has applied a response
AfterModification(kind, current, body, snap) ==
    IF kind \notin ModifiedKinds(body, snap) THEN current
    ELSE IF body.format = "array" THEN WithIds(body.rows)
    ELSE WithIds(DataOf(body, kind))

\* handleNlDataModification up to its fetch (the button is disabled while
\* loading and while the three datasets are empty)
HandleNlDataModification ==
    /\ ~loadingNlDataModification
    /\ Len(clientsData) > 0 \/ Len(workersData) > 0 \/ Len(tasksData) > 0
    /\ Pending < MaxPending
    /\ commands < MaxCommands
    /\ commands' = commands + 1
    /\ loadingNlDataModification' = TRUE
    /\ nlClosure' = Snapshot
    /\ toasts' = {}
    /\ UNCHANGED <<clientsData, workersData, tasksData, validationErrors,
                   suggestedCorrections, isUploading, loadingErrorCorrection,
                   clientsFile, workersFile, tasksFile, upload, readers, timers,
                   lastPass>>
    /\ held' = held \cup {[clientsData |-> clientsData', workersData |-> workersData', tasksData |-> tasksData']}
    /\ UNCHANGED <<post, extraction>>

\* handleNlDataModification after its fetch
NlModificationResponse(body) ==
    /\ loadingNlDataModification
    /\ loadingNlDataModification' = FALSE
    /\ nlClosure' = NoSnap
    /\ clientsData' = AfterModification("clients", clientsData, body, nlClosure)
    /\ workersData' = AfterModification("workers", workersData, body, nlClosure)
    /\ tasksData' = AfterModification("tasks", tasksData, body, nlClosure)
    /\ IF ModifiedKinds(body, nlClosure) # {}
       THEN \* triggerFullValidation("data-modification-trigger", [])
            /\ timers' = Append(timers,
                   ValidationTimer(DataModificationTrigger, nlClosure, Absent, Absent,
                       Absent,
                       [clientsData |-> AfterModification("clients", clientsData, body, nlClosure),
                        workersData |-> AfterModification("workers", workersData, body, nlClosure),
                        tasksData |-> AfterModification("tasks", tasksData, body, nlClosure)]))
            /\ toasts' = {"success: Data modified successfully using natural language"}
       ELSE /\ UNCHANGED timers
            /\ toasts' = {"warn: no data changes were applied"}
    /\ UNCHANGED <<validationErrors, suggestedCorrections, isUploading,
                   loadingErrorCorrection, clientsFile, workersFile, tasksFile,
                   upload, readers, lastPass, commands>>
    /\ held' = held \cup {[clientsData |-> clientsData', workersData |-> workersData', tasksData |-> tasksData']}
    /\ UNCHANGED <<post, extraction>>

Init ==
    /\ clientsData = <<>>
    /\ workersData = <<>>
    /\ tasksData = <<>>
    /\ validationErrors = EmptyReport
    /\ lastPass = [pass |-> NoPass, call |-> NoCall, again |-> FALSE]
    /\ HostIdle
    /\ ServerIdle

Next ==
    \/ \E kind \in Kinds : \E f \in FilesFor(kind) : HandleFileChange(kind, f)
    \/ HandleUpload
    \/ \E i \in 1..Len(timers) : ResumeUpload(i)
    \/ \E i \in 1..Len(readers) : ReaderOnload(i)
    \/ \E i \in 1..Len(timers) : BatchValidation(i)
    \/ \E i \in 1..Len(timers) : FullValidation(i)
    \/ HandleSuggestErrorCorrection
    \/ \E corrections \in CorrectionResponses : SuggestionResponse(corrections)
    \/ HandleApplySuggestedCorrections
    \/ \E type \in Kinds : \E newRow \in EditedRows(type, DataOf(Snapshot, type)) : ProcessRowUpdate(type, newRow)
    \/ \E i \in 1..Len(timers) : RowValidation(i)
    \/ HandleNlDataModification
    \/ \E body \in NlModificationResponses : NlModificationResponse(body)

Spec == Init /\ [][Next]_vars

-----------------------------------------------------------------------------
(* The host with files of any name and any columns: uploads and cell edits *)

\* a source row that has a column named id
WithIdColumn(row, v) == row @@ ("id" :> v)

\* the files the user can choose in each input when the workers file is a
\* CSV export named after two other datasets, with an id column of its own
NamedFilesFor(kind) ==
    IF kind = "workers"
    THEN { [name |-> <<"tasks", "_for_", "clients", CSV>>,
            rows |-> <<WithIdColumn(WorkerRows[2], Str(<<"7">>)),
                       WithIdColumn(WorkerRows[4], Str(<<"7">>))>>] }
    ELSE FilesFor(kind)

NextFiles ==
    \/ \E kind \in Kinds : \E f \in NamedFilesFor(kind) : HandleFileChange(kind, f)
    \/ HandleUpload
    \/ \E i \in 1..Len(timers) : ResumeUpload(i)
    \/ \E i \in 1..Len(readers) : ReaderOnload(i)
    \/ \E i \in 1..Len(timers) : BatchValidation(i)
    \/ \E i \in 1..Len(timers) : FullValidation(i)
    \/ \E type \in Kinds : \E newRow \in EditedRows(type, DataOf(Snapshot, type)) : ProcessRowUpdate(type, newRow)
    \/ \E i \in 1..Len(timers) : RowValidation(i)

SpecFiles == Init /\ [][NextFiles]_vars

-----------------------------------------------------------------------------
(* The POST handler of src/app/api/nl-to-rule/route.ts, one request.  The  *)
(* AI service settles each call as it likes: with a response, or with an   *)
(* error of some message.  The text of a response is not modelled: what    *)
(* response.text() and the extraction of the rule yield is the service's   *)
(* choice as well.                                                         *)

\* s.includes(sub)
Includes(s, sub) ==
    \E i \in 1..(Len(s) - Len(sub) + 1) : SubSeq(s, i, i + Len(sub) - 1) = sub

OVERLOADED == <<"o", "v", "e", "r", "l", "o", "a", "d", "e", "d">>

\* the messages of the errors model.generateContent can reject with
ErrorMessages ==
    { <<"5", "0", "3", " ">> \o OVERLOADED \o <<".">>,
      OVERLOADED,
      <<"m", "o", "d", "e", "l", " ", "i", "s", " ">> \o OVERLOADED,
      <<"O">> \o Tail(OVERLOADED),
      <<"q", "u", "o", "t", "a">> }

\* how a call of model.generateContent can settle
CallOutcomes ==
    {[ok |-> TRUE, message |-> <<>>]} \cup {[ok |-> FALSE, message |-> m] : m \in ErrorMessages}

\* what the code after the loop can find: response.text() throws, the
\* extraction yields a rule, or it yields null
ResponseOutcomes == {"throws", "rule", "null"}

\* the requests: req.json() throws or yields a body, with or without
\* naturalLanguageRule; GOOGLE_API_KEY is set or not
Requests ==
    {[pc |-> "received", json |-> j, naturalLanguageRule |-> r, apiKey |-> k,
      retryCount |-> 0, attempts |-> 0, failures |-> <<>>, waits |-> <<>>,
      status |-> 0] :
        j \in BOOLEAN, r \in {<<>>, <<"r">>}, k \in BOOLEAN}

maxRetries == 3

\* the handler touches nothing of the page
RetryFrame ==
    /\ UNCHANGED <<clientsData, workersData, tasksData, validationErrors, lastPass,
                   extraction>>
    /\ UNCHANGED <<suggestedCorrections, isUploading, loadingErrorCorrection,
                   clientsFile, workersFile, tasksFile, upload, readers, timers,
                   toasts, commands, loadingNlDataModification, nlClosure, held>>

\* NextResponse.json(..., { status }): the handler returns
Responded(status) == [post EXCEPT !.pc = "done", !.status = status]

\* while (retryCount < maxRetries) { try { result = await model.generateContent(...)
Attempt(p) ==
    IF p.retryCount < maxRetries
    THEN [p EXCEPT !.pc = "call", !.attempts = p.attempts + 1]
    ELSE \* if (!result) throw new Error('Failed to get response after retries')
         [p EXCEPT !.pc = "done", !.status = 500]

\* the handler up to its first call of the service
PostReceived ==
    /\ post.pc = "received"
    /\ post' = IF ~post.json THEN Responded(500)
               ELSE IF post.naturalLanguageRule = <<>> THEN Responded(400)
               ELSE IF ~post.apiKey THEN Responded(500)
               ELSE Attempt(post)
    /\ RetryFrame

\* a retry that ignores what failed: retryCount < maxRetries
RetriesAnyFailure(message, retryCount) == retryCount < maxRetries

\* message.includes('overloaded') && retryCount < maxRetries
RetriesOverloaded(message, retryCount) ==
    Includes(message, OVERLOADED) /\ retryCount < maxRetries

\* the catch block of the loop, retryCount already incremented
Caught(p, message) ==
    IF RetriesOverloaded(message, p.retryCount)
    THEN \* await new Promise(resolve => setTimeout(resolve, retryCount * 2000))
         [p EXCEPT !.pc = "wait", !.waits = Append(p.waits, p.retryCount * 2000)]
    ELSE \* throw error, caught by the handler's catch: status 500
         [p EXCEPT !.pc = "done", !.status = 500]

\* model.generateContent settles
GenerateContentSettles(outcome) ==
    /\ post.pc = "call"
    /\ post' = IF outcome.ok
               THEN [post EXCEPT !.pc = "respond"]
               ELSE Caught([post EXCEPT !.retryCount = post.retryCount + 1,
                                        !.failures = Append(post.failures, outcome.message)],
                           outcome.message)
    /\ RetryFrame

\* the timer of the wait fires: the loop tests its condition again
WaitOver ==
    /\ post.pc = "wait"
    /\ post' = Attempt(post)
    /\ RetryFrame

\* the code after the loop
PostResponds(outcome) ==
    /\ post.pc = "respond"
    /\ post' = CASE outcome = "throws" -> Responded(500)
                 [] outcome = "rule" -> Responded(200)
                 [] outcome = "null" -> Responded(400)
    /\ RetryFrame

InitRetry ==
    /\ clientsData = <<>>
    /\ workersData = <<>>
    /\ tasksData = <<>>
    /\ validationErrors = EmptyReport
    /\ lastPass = [pass |-> NoPass, call |-> NoCall, again |-> FALSE]
    /\ HostIdle
    /\ extraction = NoExtraction
    /\ post \in Requests

NextRetry ==
    \/ PostReceived
    \/ \E outcome \in CallOutcomes : GenerateContentSettles(outcome)
    \/ WaitOver
    \/ \E outcome \in ResponseOutcomes : PostResponds(outcome)

\* every await of the handler settles: the request body arrives, the service
\* answers or rejects, the timer of a wait fires
SpecRetry == InitRetry /\ [][NextRetry]_vars /\ WF_vars(NextRetry)

-----------------------------------------------------------------------------
(* Regular expressions of src/utils/aiResponseParser.ts, matched as the    *)
(* backtracking matcher of JavaScript matches them: a pattern is a tree, a *)
(* match of a tree at a position is the sequence of the ways it can match, *)
(* in the order the matcher tries them, and String.prototype.match takes   *)
(* the first way at the leftmost position that has one.                    *)

UpperToLower ==
    [c \in {"A", "B", "C", "D", "E", "F", "G", "H", "I", "J", "K", "L", "M", "N",
            "O", "P", "Q", "R", "S", "T", "U", "V", "W", "X", "Y", "Z"} |->
        CASE c = "A" -> "a" [] c = "B" -> "b" [] c = "C" -> "c" [] c = "D" -> "d"
          [] c = "E" -> "e" [] c = "F" -> "f" [] c = "G" -> "g" [] c = "H" -> "h"
          [] c = "I" -> "i" [] c = "J" -> "j" [] c = "K" -> "k" [] c = "L" -> "l"
          [] c = "M" -> "m" [] c = "N" -> "n" [] c = "O" -> "o" [] c = "P" -> "p"
          [] c = "Q" -> "q" [] c = "R" -> "r" [] c = "S" -> "s" [] c = "T" -> "t"
          [] c = "U" -> "u" [] c = "V" -> "v" [] c = "W" -> "w" [] c = "X" -> "x"
          [] c = "Y" -> "y" [] c = "Z" -> "z"]

\* the character as the flag i compares it
Fold(ch, ci) == IF ci /\ ch \in DOMAIN UpperToLower THEN UpperToLower[ch] ELSE ch

\* text.toLowerCase()
ToLowerCase(s) == [k \in 1..Len(s) |-> Fold(s[k], TRUE)]

\* the nodes of a pattern; under the flag i the characters of a class are
\* written in lower case
Ch(cs) == [op |-> "set", chars |-> cs, neg |-> FALSE, ci |-> FALSE]
ChI(cs) == [op |-> "set", chars |-> cs, neg |-> FALSE, ci |-> TRUE]
NotCh(cs) == [op |-> "set", chars |-> cs, neg |-> TRUE, ci |-> FALSE]
InOrder(items) == [op |-> "seq", items |-> items]
Alt(items) == [op |-> "alt", items |-> items]
Star(r) == [op |-> "star", r |-> r, lazy |-> FALSE]
Lazy(r) == [op |-> "star", r |-> r, lazy |-> TRUE]
Opt(r) == [op |-> "opt", r |-> r]
Cap(r) == [op |-> "cap", r |-> r]
Bol == [op |-> "bol"]
Eol == [op |-> "eol"]
Lit(str) == InOrder([k \in 1..Len(str) |-> Ch({str[k]})])
LitI(str) == InOrder([k \in 1..Len(str) |-> ChI({str[k]})])
\* [\s\S], . and \s
AnyChar == NotCh({})
Dot == NotCh({"\n", "\r"})
Ws == Ch({" ", "\t", "\n", "\r", "\f"})

\* one way to match: the position after the match and the span of group 1
Way(pos, cap) == [pos |-> pos, cap |-> cap]

RECURSIVE Match(_, _, _, _)
RECURSIVE MatchFrom(_, _, _, _)
RECURSIVE MatchSeq(_, _, _, _)
RECURSIVE MatchAlt(_, _, _, _, _)

\* the ways of r from each of the ways so far, in order
MatchFrom(r, s, ways, k) ==
    IF k > Len(ways) THEN <<>>
    ELSE Match(r, s, ways[k].pos, ways[k].cap) \o MatchFrom(r, s, ways, k + 1)

\* the items from the k-th on, after the ways so far
MatchSeq(items, k, s, ways) ==
    IF k > Len(items) THEN ways
    ELSE MatchSeq(items, k + 1, s, MatchFrom(items[k], s, ways, 1))

\* the alternatives from the k-th on
MatchAlt(items, k, s, i, c) ==
    IF k > Len(items) THEN <<>>
    ELSE Match(items[k], s, i, c) \o MatchAlt(items, k + 1, s, i, c)

\* the ways of one more iteration of a starred node that consumes a
\* character, followed by the star again
MatchMore(r, s, i, ways) ==
    MatchFrom(r, s, SelectSeq(ways, LAMBDA w : w.pos > i), 1)

\* group 1 spans from i to the end of each way
Captured(ways, i) == [k \in 1..Len(ways) |-> Way(ways[k].pos, <<i, ways[k].pos>>)]

Match(r, s, i, c) ==
    CASE r.op = "set" ->
           IF i <= Len(s) /\ ((Fold(s[i], r.ci) \in r.chars) # r.neg)
           THEN <<Way(i + 1, c)>> ELSE <<>>
      [] r.op = "seq" -> MatchSeq(r.items, 1, s, <<Way(i, c)>>)
      [] r.op = "alt" -> MatchAlt(r.items, 1, s, i, c)
      [] r.op = "star" ->
           IF r.lazy
           THEN <<Way(i, c)>> \o MatchMore(r, s, i, Match(r.r, s, i, c))
           ELSE MatchMore(r, s, i, Match(r.r, s, i, c)) \o <<Way(i, c)>>
      [] r.op = "opt" -> Match(r.r, s, i, c) \o <<Way(i, c)>>
      [] r.op = "cap" -> Captured(Match(r.r, s, i, c), i)
      [] r.op = "bol" -> IF i = 1 THEN <<Way(i, c)>> ELSE <<>>
      [] r.op = "eol" -> IF i = Len(s) + 1 THEN <<Way(i, c)>> ELSE <<>>

\* the result of s.match(r): null, or the match and its group 1
NoMatch == [found |-> FALSE, whole |-> <<>>, group |-> <<>>]
Found(s, i, way) ==
    [found |-> TRUE, whole |-> SubSeq(s, i, way.pos - 1),
     group |-> IF way.cap = <<>> THEN <<>> ELSE SubSeq(s, way.cap[1], way.cap[2] - 1)]

RECURSIVE FirstMatch(_, _, _)
FirstMatchOf(r, s, i, ways) ==
    IF ways # <<>> THEN Found(s, i, ways[1]) ELSE FirstMatch(r, s, i + 1)
FirstMatch(r, s, i) ==
    IF i > Len(s) + 1 THEN NoMatch ELSE FirstMatchOf(r, s, i, Match(r, s, i, <<>>))

\* s.match(r) for a pattern without the flag g
StringMatch(s, r) == FirstMatch(r, s, 1)

-----------------------------------------------------------------------------
(* extractJSONFromAIResponse of src/utils/aiResponseParser.ts.  A parsed   *)
(* value is the record JsonParse returns; the texts below cannot spell the *)
(* literals null, true and false, so a parsed value is an array, an        *)
(* object, a string or a number.                                           *)

ARRAY == "array"
OBJECT == "object"
ExpectedTypes == {ARRAY, OBJECT}

\* typeof data === 'object' of a parsed value
TypeofObject(data) == data.arr \/ data.obj

validateType(data, expectedType) ==
    IF expectedType = ARRAY THEN data.arr
    ELSE TypeofObject(data) /\ ~data.arr

\* the JavaScript type of a parsed value, as the caller can observe it
TypeOf(data) ==
    IF data.arr THEN "array" ELSE IF data.obj THEN "object"
    ELSE IF data.num THEN "number" ELSE "string"

NullData == [type |-> "null", json |-> <<>>]
UNDEFINED == "undefined"

\* { success: true, data: parsed, originalText: cleanedText }
Extracted(parsed, source, cleanedText) ==
    [success |-> TRUE, data |-> [type |-> TypeOf(parsed), json |-> source],
     error |-> UNDEFINED, originalText |-> cleanedText]

\* { success: true, data: emptyResult, originalText: cleanedText }
EmptyResult(expectedType, cleanedText) ==
    [success |-> TRUE,
     data |-> [type |-> expectedType,
               json |-> IF expectedType = ARRAY THEN <<"[", "]">> ELSE <<"{", "}">>],
     error |-> UNDEFINED, originalText |-> cleanedText]

\* { success: false, data: null, error, originalText }
NotExtracted(error, originalText) ==
    [success |-> FALSE, data |-> NullData, error |-> error, originalText |-> originalText]

\* JSON.parse(source) returns a value that validateType accepts
ParsesAs(source, expectedType) ==
    JsonParse(source).ok /\ validateType(JsonParse(source), expectedType)

Open(expectedType) == IF expectedType = ARRAY THEN "[" ELSE "{"
Close(expectedType) == IF expectedType = ARRAY THEN "]" ELSE "}"
Brackets(expectedType) == {Open(expectedType), Close(expectedType)}

\* the grave accent, which a string of this notation cannot hold, as a
\* character of its own
GraveAccent == "grave"
Fence == <<GraveAccent, GraveAccent, GraveAccent>>

\* (\[[\s\S]*?\]) and (\{[\s\S]*?\})
Structure(expectedType) ==
    Cap(InOrder(<<Ch({Open(expectedType)}), Lazy(AnyChar), Ch({Close(expectedType)})>>))

\* /```(?:json)?\s*(\[[\s\S]*?\])\s*```/i and its object form
codeBlockPattern(expectedType) ==
    InOrder(<<Lit(Fence), Opt(LitI(<<"j", "s", "o", "n">>)), Star(Ws),
              Structure(expectedType), Star(Ws), Lit(Fence)>>)

\* /\[[^\[\]]*(?:\{[^{}]*\}[^\[\]]*)*\]/ and /\{[^{}]*(?:\{[^{}]*\}[^{}]*)*\}/
jsonPattern(expectedType) ==
    InOrder(<<Ch({Open(expectedType)}), Star(NotCh(Brackets(expectedType))),
              Star(InOrder(<<Ch({"{"}), Star(NotCh({"{", "}"})), Ch({"}"}),
                             Star(NotCh(Brackets(expectedType)))>>)),
              Ch({Close(expectedType)})>>)

\* Results?: and the like: a word, an optional s and a colon
Label(word) == InOrder(<<LitI(word), LitI(<<":">>)>>)
Labels(word) == InOrder(<<LitI(word), Opt(ChI({"s"})), LitI(<<":">>)>>)

\* (?:Rules:|Recommendations:|Array:|Output:|Results?:) and
\* (?:Issues?:|Corrections?:|Object:|Output:|Results?:)
Prefixes(expectedType) ==
    IF expectedType = ARRAY
    THEN Alt(<<Label(<<"r", "u", "l", "e", "s">>),
               Label(<<"r", "e", "c", "o", "m", "m", "e", "n", "d", "a", "t", "i", "o", "n", "s">>),
               Label(<<"a", "r", "r", "a", "y">>),
               Label(<<"o", "u", "t", "p", "u", "t">>),
               Labels(<<"r", "e", "s", "u", "l", "t">>)>>)
    ELSE Alt(<<Labels(<<"i", "s", "s", "u", "e">>),
               Labels(<<"c", "o", "r", "r", "e", "c", "t", "i", "o", "n">>),
               Label(<<"o", "b", "j", "e", "c", "t">>),
               Label(<<"o", "u", "t", "p", "u", "t">>),
               Labels(<<"r", "e", "s", "u", "l", "t">>)>>)

\* (?:Here (?:are|is)|Suggested)
Introduction ==
    Alt(<<InOrder(<<LitI(<<"h", "e", "r", "e", " ">>),
                    Alt(<<LitI(<<"a", "r", "e">>), LitI(<<"i", "s">>)>>)>>),
          LitI(<<"s", "u", "g", "g", "e", "s", "t", "e", "d">>)>>)

\* the three patterns of strategy 4, in the order they are tried
patterns(expectedType) ==
    << InOrder(<<Prefixes(expectedType), Star(Ws), Structure(expectedType)>>),
       InOrder(<<Introduction, Ws, Star(Ws), Lazy(Dot), Ch({":"}), Star(Ws),
                 Structure(expectedType)>>),
       InOrder(<<Bol, Star(Ws), Structure(expectedType), Star(Ws), Eol>>) >>

noResultIndicators ==
    << <<"n", "o", " ", "r", "u", "l", "e", "s">>,
       <<"n", "o", " ", "p", "a", "t", "t", "e", "r", "n", "s">>,
       <<"e", "m", "p", "t", "y", " ", "a", "r", "r", "a", "y">>,
       <<"n", "o", " ", "i", "s", "s", "u", "e", "s">>,
       <<"n", "o", " ", "p", "r", "o", "b", "l", "e", "m", "s">>,
       <<"n", "o", " ", "c", "o", "r", "r", "e", "c", "t", "i", "o", "n", "s">>,
       <<"c", "a", "n", "n", "o", "t">>,
       <<"u", "n", "c", "l", "e", "a", "r">> >>

hasNoResultIndicator(cleanedText) ==
    \E k \in 1..Len(noResultIndicators) :
        Includes(ToLowerCase(cleanedText), noResultIndicators[k])

\* /[\{\[][\s\S]*?[\}\]]/
anyJsonPattern == InOrder(<<Ch({"{", "["}), Lazy(AnyChar), Ch({"}", "]"})>>)

\* Strategy 6: the first bracketed stretch, whatever JSON.parse makes of it
Strategy6Of(cleanedText, expectedType, anyJsonMatch) ==
    IF anyJsonMatch.found /\ JsonParse(anyJsonMatch.whole).ok
    THEN Extracted(JsonParse(anyJsonMatch.whole), anyJsonMatch.whole, cleanedText)
    ELSE NotExtracted("Could not extract", cleanedText)

Strategy6(cleanedText, expectedType) ==
    Strategy6Of(cleanedText, expectedType, StringMatch(cleanedText, anyJsonPattern))

\* Strategy 5: a text that says there is no result
Strategy5(cleanedText, expectedType) ==
    IF hasNoResultIndicator(cleanedText) THEN EmptyResult(expectedType, cleanedText)
    ELSE Strategy6(cleanedText, expectedType)

\* Strategy 4: the structure after a common prefix
RECURSIVE Strategy4(_, _, _)
Strategy4Of(cleanedText, expectedType, k, match) ==
    IF match.found /\ ParsesAs(match.group, expectedType)
    THEN Extracted(JsonParse(match.group), match.group, cleanedText)
    ELSE Strategy4(cleanedText, expectedType, k + 1)
Strategy4(cleanedText, expectedType, k) ==
    IF k > Len(patterns(expectedType)) THEN Strategy5(cleanedText, expectedType)
    ELSE Strategy4Of(cleanedText, expectedType, k,
                     StringMatch(cleanedText, patterns(expectedType)[k]))

\* Strategy 3: a structure somewhere in the text
Strategy3Of(cleanedText, expectedType, jsonMatch) ==
    IF jsonMatch.found /\ ParsesAs(jsonMatch.whole, expectedType)
    THEN Extracted(JsonParse(jsonMatch.whole), jsonMatch.whole, cleanedText)
    ELSE Strategy4(cleanedText, expectedType, 1)
Strategy3(cleanedText, expectedType) ==
    Strategy3Of(cleanedText, expectedType, StringMatch(cleanedText, jsonPattern(expectedType)))

\* Strategy 2: a structure in a markdown code block
Strategy2Of(cleanedText, expectedType, codeBlockMatch) ==
    IF codeBlockMatch.found /\ ParsesAs(codeBlockMatch.group, expectedType)
    THEN Extracted(JsonParse(codeBlockMatch.group), codeBlockMatch.group, cleanedText)
    ELSE Strategy3(cleanedText, expectedType)
Strategy2(cleanedText, expectedType) ==
    Strategy2Of(cleanedText, expectedType,
                StringMatch(cleanedText, codeBlockPattern(expectedType)))

\* Strategy 1: the whole text is the structure
Strategy1(cleanedText, expectedType) ==
    IF ParsesAs(cleanedText, expectedType)
    THEN Extracted(JsonParse(cleanedText), cleanedText, cleanedText)
    ELSE Strategy2(cleanedText, expectedType)

extractJSONFromAIResponse(text, expectedType) ==
    IF text = <<>> THEN NotExtracted("Invalid input", text)
    ELSE Strategy1(Trim(text), expectedType)

-----------------------------------------------------------------------------
(* The parser on the responses of the service: a response is a run of at   *)
(* most MaxFragments pieces of text.                                       *)

MaxFragments == 3

AN_OBJECT == <<"{", "\"", "a", "\"", ":", "1", "}">>
AN_ARRAY == <<"[", "1", "]">>
CANNOT == <<"C", "a", "n", "n", "o", "t">>
OUTPUT == <<"O", "u", "t", "p", "u", "t", ":">>
HERE_IS == <<"H", "e", "r", "e", " ", "i", "s", " ", "i", "t", ":">>
SPACE == <<" ">>
WORD == <<"o", "k">>

Fragments == {AN_OBJECT, AN_ARRAY, CANNOT, OUTPUT, HERE_IS, SPACE, WORD, Fence}

AIResponses ==
    {ConcatAll(fs) : fs \in UNION {[1..n -> Fragments] : n \in 0..MaxFragments}}

ParserFrame ==
    /\ UNCHANGED <<clientsData, workersData, tasksData, validationErrors, lastPass, post>>
    /\ UNCHANGED <<suggestedCorrections, isUploading, loadingErrorCorrection,
                   clientsFile, workersFile, tasksFile, upload, readers, timers,
                   toasts, commands, loadingNlDataModification, nlClosure, held>>

\* the call of the parser has returned
Returned(text, expectedType) ==
    [pc |-> "returned", text |-> text, expectedType |-> expectedType,
     result |-> extractJSONFromAIResponse(text, expectedType)]

\* extractJSONArray(text)
ExtractJSONArray ==
    /\ extraction.pc = "text"
    /\ extraction' = Returned(extraction.text, ARRAY)
    /\ ParserFrame

\* extractJSONObject(text)
ExtractJSONObject ==
    /\ extraction.pc = "text"
    /\ extraction' = Returned(extraction.text, OBJECT)
    /\ ParserFrame

InitParser ==
    /\ clientsData = <<>>
    /\ workersData = <<>>
    /\ tasksData = <<>>
    /\ validationErrors = EmptyReport
    /\ lastPass = [pass |-> NoPass, call |-> NoCall, again |-> FALSE]
    /\ HostIdle
    /\ post = NoRequest
    /\ extraction \in {[pc |-> "text", text |-> text] : text \in AIResponses}

NextParser ==
    \/ ExtractJSONArray
    \/ ExtractJSONObject

SpecParser == InitParser /\ [][NextParser]_vars

-----------------------------------------------------------------------------
(* The data model as the specification states it, for the claims           *)

RECURSIVE SumF(_, _)
SumF(f, S) ==
    IF S = {} THEN 0
    ELSE LET x == CHOOSE y \in S : TRUE IN f[x] + SumF(f, S \ {x})

\* an integer cell: a number, or a string that is a signed decimal integer
IsInteger(c) ==
    \/ c.t = "num"
    \/ c.t = "str" /\ Trim(c.s) # <<>> /\ ~StringToNumber(c.s).nan
IntOf(c) == IF c.t = "num" THEN c.n ELSE StringToNumber(c.s).v
IntOrZero(c) == IF IsInteger(c) THEN IntOf(c) ELSE 0

\* the non-empty trimmed tokens of a comma list
Tokens(c) == {tk \in Range(MapTrim(Split(ToStr(OrEmpty(c)), ","))) : tk # <<>>}

\* the three surface forms of a phase set: [a,b,..], start-end, a,b,..
SpecPhases(c) ==
    LET s == Trim(ToStr(OrEmpty(c)))
        dash == Split(s, "-")
        parts == Split(s, ",")
        bad == [ok |-> FALSE, set |-> {}]
    IN  IF s = <<>> THEN [ok |-> TRUE, set |-> {}]
        ELSE IF StartsWith(s, "[") /\ EndsWith(s, "]")
        THEN LET p == JsonParse(s)
             IN  IF p.ok /\ \A i \in 1..Len(p.elems) :
                                p.elems[i].num /\ p.elems[i].frac = <<>>
                 THEN [ok |-> TRUE, set |-> {p.elems[i].v : i \in 1..Len(p.elems)}]
                 ELSE bad
        ELSE IF Len(dash) = 2 /\ DigitsRegexTest(dash[1]) /\ DigitsRegexTest(dash[2])
        THEN IF DigitsValue(dash[1]) <= DigitsValue(dash[2])
             THEN [ok |-> TRUE, set |-> DigitsValue(dash[1])..DigitsValue(dash[2])]
             ELSE bad
        ELSE IF \A i \in 1..Len(parts) : DigitsRegexTest(parts[i])
        THEN [ok |-> TRUE, set |-> {DigitsValue(parts[i]) : i \in 1..Len(parts)}]
        ELSE bad

\* the set of phases a worker lists
SlotSet(worker) == {DigitsValue(tk) : tk \in Tokens(Get(worker, "AvailableSlots"))}
SlotsWellFormed(worker) ==
    \A tk \in Tokens(Get(worker, "AvailableSlots")) : DigitsRegexTest(tk)

\* the workers that hold a skill
WorkersWithSkill(workers, skill) ==
    {i \in 1..Len(workers) : skill \in Tokens(Get(workers[i], "Skills"))}

IsPhaseError(e) ==
    e.kind \in {"MalformedPreferredPhases", "MalformedPreferredPhasesArray",
                "MalformedPreferredPhasesJSONArray", "MalformedPreferredPhasesRange"}

ErrorsWhere(errs, Test(_)) == {k \in 1..Len(errs) : Test(errs[k])}

\* the report as one set of errors
ReportErrors(report) == UNION {Range(report[key]) : key \in DOMAIN report}

-----------------------------------------------------------------------------
(* Claims about the engine, checked under SpecEngine *)

P123 == {Int2Num(1), Int2Num(2), Int2Num(3)}
ThreeSyntaxes ==
    { <<"[", "1", ",", "2", ",", "3", "]">>, <<"1", "-", "3">>, <<"1", ",", "2", ",", "3">> }

\* C1: a task whose PreferredPhases is "[1,2,3]", "1-3" or "1,2,3" gets no
\* PreferredPhases structural error from validateSingleDataset, and
\* parsePreferredPhases gives the phase set {1,2,3} for each of the three.
C1_PhaseSyntaxEquivalence ==
    lastPass.pass.ran =>
        \A i \in 1..Len(lastPass.pass.allTasksData) :
            LET cell == Get(lastPass.pass.allTasksData[i], "PreferredPhases")
            IN  (cell.t = "str" /\ cell.s \in ThreeSyntaxes) =>
                    /\ ErrorsWhere(lastPass.pass.taskErrors,
                                   LAMBDA e : IsPhaseError(e) /\ e.row = i) = {}
                    /\ Range(parsePreferredPhases(cell.s)) = P123

IsSaturationOfPhase1(e) == e.kind = "PhaseSaturation" /\ e.phase = Int2Num(1)

\* C2: one worker (AvailableSlots "1", MaxLoadPerPhase 2) and one task
\* (PreferredPhases "1"): with Duration 5 the report has a capacity error
\* for phase 1 with demand 5 and capacity 2, with Duration 2 it has no
\* capacity error for phase 1.
C2_CapacitySaturationScenario ==
    LET w == lastPass.pass.allWorkersData
        t == lastPass.pass.allTasksData
    IN  ( /\ lastPass.pass.ran
          /\ Len(w) = 1
          /\ ToStr(Get(w[1], "AvailableSlots")) = <<"1">>
          /\ IntOrZero(Get(w[1], "MaxLoadPerPhase")) = 2
          /\ Len(t) = 1
          /\ ToStr(Get(t[1], "PreferredPhases")) = <<"1">> ) =>
            /\ IntOrZero(Get(t[1], "Duration")) = 5 =>
                   \E e \in ReportErrors(lastPass.pass.allErrors) :
                       IsSaturationOfPhase1(e) /\ e.a = 5 /\ e.b = 2
            /\ IntOrZero(Get(t[1], "Duration")) = 2 =>
                   ~\E e \in ReportErrors(lastPass.pass.allErrors) : IsSaturationOfPhase1(e)

PhaseUniverse ==
    {Int2Num(v) : v \in -1..4} \cup {NaN} \cup {Frac2Num(1, <<"+", "5">>)}

\* the phases parsePreferredPhases gives for a task
NormalizedPhases(task) == Range(PreferredPhasesOf(task))

Demand(tasks, p) ==
    SumF([i \in 1..Len(tasks) |-> IntOrZero(Get(tasks[i], "Duration"))],
         {i \in 1..Len(tasks) : p \in NormalizedPhases(tasks[i])})

CapacityComputed(workers, p) ==
    LET caps == phaseCapacities(workers)
    IN  IF ~p.nan /\ p.frac = <<>> /\ p.v \in DOMAIN caps THEN caps[p.v] ELSE 0

C4_CapacityCountsEachWorkerOnce ==
    lastPass.pass.ran =>
        LET w == lastPass.pass.allWorkersData
        IN  \A v \in 0..4 :
                CapacityComputed(w, Int2Num(v)) =
                    SumF([i \in 1..Len(w) |-> IntOrZero(Get(w[i], "MaxLoadPerPhase"))],
                         {i \in 1..Len(w) : v \in SlotSet(w[i])})

\* C5: a task with a valid MaxConcurrent = k >= 1 and a non-empty
\* RequiredSkills gets exactly one concurrency error if one of its required
\* skills is held by fewer than k workers, and none otherwise.
C5_ConcurrencyErrorIffSkillShort ==
    lastPass.pass.ran =>
        LET t == lastPass.pass.allTasksData
            w == lastPass.pass.allWorkersData
        IN  \A i \in 1..Len(t) :
                LET kc == Get(t[i], "MaxConcurrent")
                    skills == Tokens(Get(t[i], "RequiredSkills"))
                    short == \E sk \in skills :
                                 Cardinality(WorkersWithSkill(w, sk)) < IntOf(kc)
                IN  (IsInteger(kc) /\ IntOf(kc) >= 1 /\ skills # {}) =>
                        Cardinality(ErrorsWhere(lastPass.pass.maxConcurrencyErrors,
                                                LAMBDA e : e.row = i))
                            = IF short THEN 1 ELSE 0

\* C6: the per-skill worker count is the number of distinct workers whose
\* Skills include the skill.
C6_SkillCountIsDistinctWorkers ==
    lastPass.pass.ran =>
        LET w == lastPass.pass.allWorkersData
            counts == skillToWorkerCount(w)
        IN  \A sk \in {PYTHON, JS} :
                (IF sk \in DOMAIN counts THEN counts[sk] ELSE 0)
                    = Cardinality(WorkersWithSkill(w, sk))

\* C7: validateOverloadedWorkers emits exactly one error for every worker
\* whose number of available phases (the size of the set of phases it
\* lists, 0 for an empty AvailableSlots) is less than its MaxLoadPerPhase,
\* and none for any other worker.
C7_OverloadIffFewerPhasesThanLoad ==
    lastPass.pass.ran =>
        LET w == lastPass.pass.allWorkersData
        IN  \A i \in 1..Len(w) :
                LET overloaded ==
                        /\ IsInteger(Get(w[i], "MaxLoadPerPhase"))
                        /\ Cardinality(SlotSet(w[i])) < IntOf(Get(w[i], "MaxLoadPerPhase"))
                IN  Cardinality(ErrorsWhere(lastPass.pass.overloadedWorkerErrors,
                                            LAMBDA e : e.row = i))
                        = IF overloaded THEN 1 ELSE 0

\* the primary keys of a dataset are pairwise distinct
UniqueKeys(data, type) ==
    \A i, j \in 1..Len(data) :
        i # j => ToStr(Get(data[i], idField(type))) # ToStr(Get(data[j], idField(type)))

InDomain(c, lo) == IsInteger(c) /\ IntOf(c) >= lo

\* a trio that satisfies every validity invariant of the data model, and
\* has no overloaded worker
Consistent(c, w, t) ==
    /\ UniqueKeys(c, "clients") /\ UniqueKeys(w, "workers") /\ UniqueKeys(t, "tasks")
    /\ \A i \in 1..Len(c) :
           /\ InDomain(Get(c[i], "PriorityLevel"), 1) /\ IntOf(Get(c[i], "PriorityLevel")) <= 5
           /\ Tokens(Get(c[i], "RequestedTaskIDs"))
                  \subseteq {ToStr(Get(t[j], "TaskID")) : j \in 1..Len(t)}
           /\ LET a == ToStr(OrEmpty(Get(c[i], "AttributesJSON")))
              IN  Trim(a) = <<>> \/ JsonParse(a).ok
    /\ \A i \in 1..Len(w) :
           /\ InDomain(Get(w[i], "MaxLoadPerPhase"), 0)
           /\ SlotsWellFormed(w[i])
           /\ Cardinality(SlotSet(w[i])) >= IntOf(Get(w[i], "MaxLoadPerPhase"))
    /\ \A i \in 1..Len(t) :
           /\ InDomain(Get(t[i], "Duration"), 1)
           /\ InDomain(Get(t[i], "MaxConcurrent"), 1)
           /\ SpecPhases(Get(t[i], "PreferredPhases")).ok
           /\ \A sk \in Tokens(Get(t[i], "RequiredSkills")) :
                  Cardinality(WorkersWithSkill(w, sk)) >= IntOf(Get(t[i], "MaxConcurrent"))
           /\ \A ph \in SpecPhases(Get(t[i], "PreferredPhases")).set :
                  SumF([j \in 1..Len(t) |-> IntOrZero(Get(t[j], "Duration"))],
                       {j \in 1..Len(t) : ph \in SpecPhases(Get(t[j], "PreferredPhases")).set})
                    <= SumF([j \in 1..Len(w) |-> IntOrZero(Get(w[j], "MaxLoadPerPhase"))],
                            {j \in 1..Len(w) : ph \in SlotSet(w[j])})

\* C8: for a trio of datasets that satisfies the validity invariants of the
\* data model, no dataset key of the report maps to a non-empty error list.
C8_ConsistentTrioHasEmptyReport ==
    (lastPass.pass.ran
       /\ Consistent(lastPass.pass.allClientsData, lastPass.pass.allWorkersData,
                     lastPass.pass.allTasksData)) =>
        \A key \in DOMAIN lastPass.pass.allErrors : lastPass.pass.allErrors[key] = <<>>

-----------------------------------------------------------------------------
(* Claims about the host, checked under Spec *)

\* handleUpload has finished, every reader it started has loaded and every
\* timer has fired
Settled == upload.pc = "idle" /\ readers = <<>> /\ timers = <<>>

\* C9: when handleUpload has parsed the selected files and every validation
\* timer it scheduled has fired, validationErrors is the report of a full
\* validation of the clients, workers and tasks datasets the state holds.
C9_UploadReportIsOfLoadedData ==
    (Settled /\ lastPass.pass.ran
        /\ lastPass.call.fileName \notin {AppliedCorrections, DataModificationTrigger, RowUpdate}) =>
        validationErrors =
            ValidationPass(clientsData, workersData, tasksData, tasksData).allErrors

\* C10: when the validation timer of handleApplySuggestedCorrections fires,
\* validationErrors becomes the report of validating the new clients
\* dataset as clients, the new workers dataset as workers and the new tasks
\* dataset as tasks.
C10_CorrectionsReportIsOfNewData ==
    [][\A i \in 1..Len(timers) :
           (FullValidation(i) /\ timers[i].fileName = AppliedCorrections) =>
               validationErrors' =
                   ValidationPass(timers[i].updated.clientsData,
                                  timers[i].updated.workersData,
                                  timers[i].updated.tasksData,
                                  timers[i].updated.tasksData).allErrors]_vars

\* C11: when the validation timer of processRowUpdate fires, validationErrors
\* becomes the report of a full validation of the datasets the state held
\* right after the edit: the edited dataset with the new row in the place of
\* the old one, the other two datasets as they were.
C11_RowUpdateReportIsOfEditedData ==
    [][\A i \in 1..Len(timers) :
           RowValidation(i) =>
               validationErrors' =
                   ValidationPass(timers[i].updated.clientsData,
                                  timers[i].updated.workersData,
                                  timers[i].updated.tasksData,
                                  timers[i].updated.tasksData).allErrors]_vars

\* a cell edit has been validated: the report is the one of the edited
\* datasets, which the state holds, and it names an error
C11_Witness ==
    /\ Settled
    /\ lastPass.call.fileName = RowUpdate
    /\ Snapshot = lastPass.call.updated
    /\ validationErrors =
           ValidationPass(clientsData, workersData, tasksData, tasksData).allErrors
    /\ "tasks" \in DOMAIN validationErrors

\* C12: in any interleaving of uploads, cell edits, data modifications and
\* applied corrections, the clients, workers and tasks a validation pass is
\* given are the three datasets the state held together at one instant: a
\* pass never gets a changed dataset with an unchanged one of another
\* instant, nor one dataset in the place of another.
C12_PassValidatesOneInstant ==
    lastPass.pass.ran => PassInputs(lastPass.pass) \in held

\* the toasts that announce a successful validation
ValidatedSuccessfully ==
    {"success: All files uploaded and validated successfully",
     "success: All data validated successfully"}

\* C13: a notification of successful validation is shown only when the
\* report of a full validation of the datasets the state holds is empty; in
\* particular none is shown after an upload of data that has validation
\* errors.
C13_SuccessToastOnlyForEmptyReport ==
    (toasts \cap ValidatedSuccessfully # {}) =>
        ValidationPass(clientsData, workersData, tasksData, tasksData).allErrors
            = EmptyReport

-----------------------------------------------------------------------------
(* Claims about the reference and structural checks, checked under        *)
(* SpecEngine                                                              *)

\* the trimmed tokens of a comma list, in order, empty ones included
TokenSeq(c) == MapTrim(Split(ToStr(OrEmpty(c)), ","))
Count(seq, x) == Cardinality({j \in 1..Len(seq) : seq[j] = x})
T1 == <<"T", "1">>
T9 == <<"T", "9">>

\* C14: when clients and tasks are both non-empty, the pass reports for
\* every client row one error per non-empty trimmed token of its
\* RequestedTaskIDs that is no task's TaskID, naming the row and the token,
\* and no error for a token that is some task's TaskID; the errors are
\* reported under the clients key.
C14_OneErrorPerUnknownTaskToken ==
    (lastPass.pass.ran /\ Len(lastPass.pass.allClientsData) > 0
        /\ Len(lastPass.pass.allTasksData) > 0) =>
        LET c == lastPass.pass.allClientsData
            t == lastPass.pass.allTasksData
            errs == lastPass.pass.clientTaskErrors
            taskIds == {ToStr(Get(t[j], "TaskID")) : j \in 1..Len(t)}
        IN  /\ \A i \in 1..Len(c) :
                  \A tk \in Tokens(Get(c[i], "RequestedTaskIDs")) :
                      Cardinality(ErrorsWhere(errs, LAMBDA e : e.row = i /\ e.tok = tk))
                          = IF tk \in taskIds THEN 0
                            ELSE Count(TokenSeq(Get(c[i], "RequestedTaskIDs")), tk)
            /\ \A k \in 1..Len(errs) :
                  /\ errs[k].kind = "TaskNotFound"
                  /\ errs[k].row \in 1..Len(c)
                  /\ errs[k].tok \in Tokens(Get(c[errs[k].row], "RequestedTaskIDs"))
                  /\ errs[k] \in Range(lastPass.pass.allErrors["clients"])

\* tasks hold T1 and not T9, a client requests "T1,T9": the one reference
\* error of the pass names T9
C14_Witness ==
    /\ lastPass.pass.ran
    /\ \E i \in 1..Len(lastPass.pass.allClientsData) :
          /\ TokenSeq(Get(lastPass.pass.allClientsData[i], "RequestedTaskIDs")) = <<T1, T9>>
          /\ \E j \in 1..Len(lastPass.pass.allTasksData) :
                ToStr(Get(lastPass.pass.allTasksData[j], "TaskID")) = T1
          /\ Len(lastPass.pass.clientTaskErrors) = 1
          /\ lastPass.pass.clientTaskErrors[1].row = i
          /\ lastPass.pass.clientTaskErrors[1].tok = T9

GO == <<"g", "o">>

\* C15: when tasks and workers are both non-empty, the pass reports for
\* every task row one error per non-empty trimmed token of its
\* RequiredSkills that is in no worker's trimmed Skills tokens, naming the
\* row and the skill, and no error for a token some worker holds; the errors
\* are reported under the tasks key.
C15_OneErrorPerUnknownSkillToken ==
    (lastPass.pass.ran /\ Len(lastPass.pass.allTasksData) > 0
        /\ Len(lastPass.pass.allWorkersData) > 0) =>
        LET t == lastPass.pass.allTasksData
            w == lastPass.pass.allWorkersData
            errs == lastPass.pass.taskWorkerErrors
            workerSkills == UNION {Tokens(Get(w[j], "Skills")) : j \in 1..Len(w)}
        IN  /\ \A i \in 1..Len(t) :
                  \A tk \in Tokens(Get(t[i], "RequiredSkills")) :
                      Cardinality(ErrorsWhere(errs, LAMBDA e : e.row = i /\ e.tok = tk))
                          = IF tk \in workerSkills THEN 0
                            ELSE Count(TokenSeq(Get(t[i], "RequiredSkills")), tk)
            /\ \A k \in 1..Len(errs) :
                  /\ errs[k].kind = "SkillNotFound"
                  /\ errs[k].row \in 1..Len(t)
                  /\ errs[k].tok \in Tokens(Get(t[errs[k].row], "RequiredSkills"))
                  /\ errs[k] \in Range(lastPass.pass.allErrors["tasks"])

\* the workers hold python only; one task requires "python" and has no
\* error, another requires "js, go" and has two
C15_Witness ==
    /\ lastPass.pass.ran
    /\ Len(lastPass.pass.allWorkersData) > 0
    /\ \A j \in 1..Len(lastPass.pass.allWorkersData) :
          Tokens(Get(lastPass.pass.allWorkersData[j], "Skills")) = {PYTHON}
    /\ \E i, h \in 1..Len(lastPass.pass.allTasksData) :
          /\ TokenSeq(Get(lastPass.pass.allTasksData[i], "RequiredSkills")) = <<JS, GO>>
          /\ TokenSeq(Get(lastPass.pass.allTasksData[h], "RequiredSkills")) = <<PYTHON>>
          /\ Cardinality(ErrorsWhere(lastPass.pass.taskWorkerErrors,
                                     LAMBDA e : e.row = i)) = 2
          /\ ErrorsWhere(lastPass.pass.taskWorkerErrors, LAMBDA e : e.row = h) = {}

\* the primary keys of a dataset, in row order
Keys(data, type) == [i \in 1..Len(data) |-> Get(data[i], idField(type))]
\* the key values that more than one row holds
RepeatedKeys(data, type) ==
    {v \in Range(Keys(data, type)) : v # Undef /\ Count(Keys(data, type), v) > 1}
IsDuplicateIdsError(e) == e.kind = "DuplicateIDs"

\* the duplicate-ID errors of a dataset are one error that lists every
\* repeated key once when a key is repeated, and none otherwise
DuplicatesReported(data, type, errs) ==
    LET dup == ErrorsWhere(errs, IsDuplicateIdsError)
    IN  /\ Cardinality(dup) = IF RepeatedKeys(data, type) # {} THEN 1 ELSE 0
        /\ \A k \in dup :
              /\ errs[k].ds = type
              /\ Range(errs[k].ids) = RepeatedKeys(data, type)
              /\ Len(errs[k].ids) = Cardinality(RepeatedKeys(data, type))
              /\ errs[k] \in Range(lastPass.pass.allErrors[type])

\* C16: for each dataset the pass reports exactly one duplicate-ID error
\* when a primary-key value occurs in more than one row and none otherwise,
\* and the error lists every repeated value exactly once.
C16_OneDuplicateErrorListsEachKeyOnce ==
    lastPass.pass.ran =>
        /\ DuplicatesReported(lastPass.pass.allClientsData, "clients",
                              lastPass.pass.clientErrors)
        /\ DuplicatesReported(lastPass.pass.allWorkersData, "workers",
                              lastPass.pass.workerErrors)
        /\ DuplicatesReported(lastPass.pass.allTasksData, "tasks",
                              lastPass.pass.taskErrors)

\* clients with the keys C1, C1, C2: one duplicate-ID error, which lists C1
C16_Witness ==
    /\ lastPass.pass.ran
    /\ Keys(lastPass.pass.allClientsData, "clients")
          = <<ID("C", "1"), ID("C", "1"), ID("C", "2")>>
    /\ \E k \in 1..Len(lastPass.pass.clientErrors) :
          /\ lastPass.pass.clientErrors[k].kind = "DuplicateIDs"
          /\ lastPass.pass.clientErrors[k].ids = <<ID("C", "1")>>
          /\ \A j \in 1..Len(lastPass.pass.clientErrors) :
                lastPass.pass.clientErrors[j].kind = "DuplicateIDs" => j = k

\* the number of errors of a kind that name a row
RowErrorCount(errs, kind, i) ==
    Cardinality(ErrorsWhere(errs, LAMBDA e : e.kind = kind /\ e.row = i))

\* C17: a worker whose MaxLoadPerPhase is an integer >= 0, 0 included, as a
\* number or as a numeric string, gets no MaxLoadPerPhase error; a worker
\* whose MaxLoadPerPhase is negative, missing or not numeric gets exactly
\* one.
C17_MaxLoadErrorIffNotNonNegativeInteger ==
    lastPass.pass.ran =>
        \A i \in 1..Len(lastPass.pass.allWorkersData) :
            RowErrorCount(lastPass.pass.workerErrors, "InvalidMaxLoadPerPhase", i)
                = IF InDomain(Get(lastPass.pass.allWorkersData[i], "MaxLoadPerPhase"), 0)
                  THEN 0 ELSE 1

\* C18: a client row gets exactly one PriorityLevel error when its
\* PriorityLevel is not an integer in 1..5 (7, 0, missing, not numeric) and
\* none when it is.
C18_PriorityErrorIffNotInRange ==
    lastPass.pass.ran =>
        \A i \in 1..Len(lastPass.pass.allClientsData) :
            RowErrorCount(lastPass.pass.clientErrors, "InvalidPriorityLevel", i)
                = IF /\ InDomain(Get(lastPass.pass.allClientsData[i], "PriorityLevel"), 1)
                     /\ IntOf(Get(lastPass.pass.allClientsData[i], "PriorityLevel")) <= 5
                  THEN 0 ELSE 1

\* a PreferredPhases string in one of the three forms: a bracketed array of
\* integers, start-end with start <= end, or a comma list of integers
WellFormedPhases(c) == SpecPhases(c).ok

\* C19: a task row whose PreferredPhases is non-empty and is neither a
\* bracketed array of integers, nor a range start-end with start <= end,
\* nor a comma list of integers ("1,,3", "x-y", "3-1", [1,"a"]) gets exactly
\* one PreferredPhases structural error: never none, never more.
C19_MalformedPhasesGetOneError ==
    lastPass.pass.ran =>
        \A i \in 1..Len(lastPass.pass.allTasksData) :
            (/\ Trim(ToStr(OrEmpty(Get(lastPass.pass.allTasksData[i], "PreferredPhases")))) # <<>>
             /\ ~WellFormedPhases(Get(lastPass.pass.allTasksData[i], "PreferredPhases"))) =>
                Cardinality(ErrorsWhere(lastPass.pass.taskErrors,
                                        LAMBDA e : IsPhaseError(e) /\ e.row = i)) = 1

\* the fields of a row that are outside the domains of the data model
InvalidFields(row, type) ==
    CASE type = "clients" ->
           {f \in {"PriorityLevel"} :
               ~(InDomain(Get(row, f), 1) /\ IntOf(Get(row, f)) <= 5)}
           \cup {f \in {"AttributesJSON"} :
                    /\ Trim(ToStr(OrEmpty(Get(row, f)))) # <<>>
                    /\ ~JsonParse(ToStr(OrEmpty(Get(row, f)))).ok}
      [] type = "workers" ->
           {f \in {"MaxLoadPerPhase"} : ~InDomain(Get(row, f), 0)}
           \cup {f \in {"AvailableSlots"} : ~SlotsWellFormed(row)}
      [] type = "tasks" ->
           {f \in {"Duration", "MaxConcurrent"} : ~InDomain(Get(row, f), 1)}
           \cup {f \in {"PreferredPhases"} : ~WellFormedPhases(Get(row, f))}

\* the errors of a list that name row i, in order
ErrorsOfRow(errs, i) == SelectSeq(errs, LAMBDA e : e.row = i)

\* the errors of row i of a dataset are one per invalid field when several
\* fields are invalid, and are the errors the row gets when it is validated
\* alone: they do not depend on the cells of another row
RowsReportedApart(data, type, errs) ==
    \A i \in 1..Len(data) :
        /\ Cardinality(InvalidFields(data[i], type)) >= 2 =>
               Len(ErrorsOfRow(errs, i)) = Cardinality(InvalidFields(data[i], type))
        /\ ErrorsOfRow(errs, i)
               = [k \in 1..Len(ErrorsOfRow(validateSingleDataset(<<data[i]>>, type), 1)) |->
                     [ErrorsOfRow(validateSingleDataset(<<data[i]>>, type), 1)[k]
                         EXCEPT !.row = i]]

\* C20: a pass never aborts on a malformed cell: a row with several invalid
\* fields gets one structural error per invalid field (a client with an
\* out-of-range PriorityLevel and a malformed AttributesJSON gets two), the
\* errors of the other rows do not change, and the reference and capacity
\* errors are all in the report.
C20_MalformedCellsDoNotAbortThePass ==
    lastPass.pass.ran =>
        /\ validationErrors = lastPass.pass.allErrors
        /\ RowsReportedApart(lastPass.pass.allClientsData, "clients",
                             lastPass.pass.clientErrors)
        /\ RowsReportedApart(lastPass.pass.allWorkersData, "workers",
                             lastPass.pass.workerErrors)
        /\ RowsReportedApart(lastPass.pass.allTasksData, "tasks",
                             lastPass.pass.taskErrors)
        /\ Range(lastPass.pass.clientTaskErrors) \cup Range(lastPass.pass.taskWorkerErrors)
             \cup Range(lastPass.pass.overloadedWorkerErrors)
             \cup Range(lastPass.pass.phaseSaturationErrors)
             \cup Range(lastPass.pass.maxConcurrencyErrors)
               \subseteq ReportErrors(validationErrors)

-----------------------------------------------------------------------------
\* the error list of a dataset key in a report: empty when the key is absent
ListOf(report, key) == IF key \in DOMAIN report THEN report[key] ELSE <<>>

\* what the ten checks return for the inputs of pass p, the two relationship
\* checks being run only when both of their datasets are non-empty
ChecksOf(p) ==
    [schemaClients |-> validateSingleDataset(p.allClientsData, "clients"),
     schemaWorkers |-> validateSingleDataset(p.allWorkersData, "workers"),
     schemaTasks |-> validateSingleDataset(p.allTasksData, "tasks"),
     clientTask |-> IF Len(p.allClientsData) > 0 /\ Len(p.allTasksData) > 0
                    THEN validateClientTaskRelationship(p.allClientsData, p.allTasksData)
                    ELSE <<>>,
     taskWorker |-> IF Len(p.allTasksData) > 0 /\ Len(p.allWorkersData) > 0
                    THEN validateTaskWorkerRelationship(p.allTasksData, p.allWorkersData)
                    ELSE <<>>,
     overload |-> validateOverloadedWorkers(p.allWorkersData),
     saturation |-> validatePhaseSlotSaturation(p.allTasksData, p.allWorkersData),
     concurrency |-> validateMaxConcurrencyFeasibility(p.allTasksData, p.allWorkersData)]

\* C21: for each dataset key the error list of the report is the
\* concatenation, in this order, of the schema errors, the cross-reference
\* errors and the capacity errors found for that dataset (clients: schema,
\* client-to-task; workers: schema, overload; tasks: schema, skill reference,
\* phase saturation, concurrency); nothing is dropped or merged, so the length
\* of the list is the sum of the lengths of the checks' outputs.
C21_ReportConcatenatesChecksInOrder ==
    lastPass.pass.ran =>
        LET c == ChecksOf(lastPass.pass) IN
        /\ DOMAIN validationErrors \subseteq {"clients", "workers", "tasks"}
        /\ ListOf(validationErrors, "clients") = c.schemaClients \o c.clientTask
        /\ ListOf(validationErrors, "workers") = c.schemaWorkers \o c.overload
        /\ ListOf(validationErrors, "tasks")
             = c.schemaTasks \o c.taskWorker \o c.saturation \o c.concurrency
        /\ Len(ListOf(validationErrors, "tasks"))
             = Len(c.schemaTasks) + Len(c.taskWorker) + Len(c.saturation)
                 + Len(c.concurrency)

\* a pass in which all four checks of the tasks dataset and both checks of
\* the workers dataset and of the clients dataset found errors
C21_Witness ==
    /\ lastPass.pass.ran
    /\ Len(lastPass.pass.taskErrors) > 0
    /\ Len(lastPass.pass.taskWorkerErrors) > 0
    /\ Len(lastPass.pass.phaseSaturationErrors) > 0
    /\ Len(lastPass.pass.maxConcurrencyErrors) > 0
    /\ Len(lastPass.pass.clientErrors) > 0
    /\ Len(lastPass.pass.clientTaskErrors) > 0
    /\ Len(lastPass.pass.workerErrors) > 0
    /\ Len(lastPass.pass.overloadedWorkerErrors) > 0
    /\ Len(validationErrors["tasks"]) >= 4

-----------------------------------------------------------------------------
\* a validation callback runs
PassStep == \E i \in 1..Len(timers) : FullValidation(i) \/ RowValidation(i)

-----------------------------------------------------------------------------
\* every row of a dataset has an id of its own
UniqueRowIds(data) ==
    \A i, j \in 1..Len(data) : i # j => data[i].id # data[j].id

\* C23: after any load, data modification or applied correction, every row
\* of each dataset the host holds has an id that is unique within its
\* dataset, whatever columns the source rows contain.
C23_RowIdsAreUnique ==
    /\ UniqueRowIds(clientsData)
    /\ UniqueRowIds(workersData)
    /\ UniqueRowIds(tasksData)

-----------------------------------------------------------------------------
\* the rows of a dataset that an edit has changed
ChangedRows(before, after) ==
    {i \in 1..Len(before) : i > Len(after) \/ after[i] # before[i]}

\* after is before with the single row of newRow's id replaced by newRow
OneRowReplaced(before, after, newRow) ==
    /\ Len(after) = Len(before)
    /\ \E i \in 1..Len(before) :
           /\ before[i].id = newRow.id
           /\ after[i] = newRow
           /\ ChangedRows(before, after) \subseteq {i}

\* C24: processRowUpdate on a dataset replaces exactly the one row whose id
\* equals the edited row's id with the edited row, and leaves every other
\* row of that dataset, its length and order, and the other two datasets
\* unchanged.
C24_RowUpdateReplacesOneRow ==
    [][\A type \in Kinds : \A newRow \in EditedRows(type, DataOf(Snapshot, type)) :
          ProcessRowUpdate(type, newRow) =>
              /\ type = "clients" =>
                     /\ OneRowReplaced(clientsData, clientsData', newRow)
                     /\ UNCHANGED <<workersData, tasksData>>
              /\ type = "workers" =>
                     /\ OneRowReplaced(workersData, workersData', newRow)
                     /\ UNCHANGED <<clientsData, tasksData>>
              /\ type = "tasks" =>
                     /\ OneRowReplaced(tasksData, tasksData', newRow)
                     /\ UNCHANGED <<clientsData, workersData>>]_vars

-----------------------------------------------------------------------------
\* every non-empty token of every client's RequestedTaskIDs is a TaskID
RequestedTasksResolve(clients, tasks) ==
    \A i \in 1..Len(clients) :
        Tokens(Get(clients[i], "RequestedTaskIDs"))
            \subseteq {ToStr(Get(tasks[j], "TaskID")) : j \in 1..Len(tasks)}

\* every non-empty token of every task's RequiredSkills is a worker's skill
RequiredSkillsResolve(tasks, workers) ==
    \A i \in 1..Len(tasks) :
        Tokens(Get(tasks[i], "RequiredSkills"))
            \subseteq UNION {Tokens(Get(workers[j], "Skills")) : j \in 1..Len(workers)}

\* C25: if the report of a pass is empty, every non-empty token of every
\* client's RequestedTaskIDs is the TaskID of some task and every non-empty
\* token of every task's RequiredSkills is a skill of some worker, for all
\* trios of datasets, those with an empty tasks or workers dataset included.
C25_EmptyReportMeansReferencesResolve ==
    (lastPass.pass.ran /\ DOMAIN validationErrors = {}) =>
        /\ RequestedTasksResolve(lastPass.pass.allClientsData, lastPass.pass.allTasksData)
        /\ RequiredSkillsResolve(lastPass.pass.allTasksData, lastPass.pass.allWorkersData)

-----------------------------------------------------------------------------
\* no check of pass p returned an error
PassFoundNoError(p) ==
    /\ p.clientErrors = <<>> /\ p.workerErrors = <<>> /\ p.taskErrors = <<>>
    /\ p.clientTaskErrors = <<>> /\ p.taskWorkerErrors = <<>>
    /\ p.overloadedWorkerErrors = <<>> /\ p.phaseSaturationErrors = <<>>
    /\ p.maxConcurrencyErrors = <<>>

\* every key of a report is a dataset kind and maps to a non-empty list
KeysHaveErrors(report) ==
    /\ DOMAIN report \subseteq Kinds
    /\ \A key \in DOMAIN report : Len(report[key]) > 0

\* C26 as stated: in every state of the host each key of validationErrors is
\* one of clients, workers, tasks and maps to a non-empty list, and
\* validationErrors has no keys exactly when the last pass found no error.
C26_NoKeysIffLastPassFoundNoError ==
    /\ KeysHaveErrors(validationErrors)
    /\ (DOMAIN validationErrors = {}) <=> PassFoundNoError(lastPass.pass)

\* C26 as amended: in every state of the host each key of validationErrors is
\* one of clients, workers, tasks and maps to a non-empty list;
\* validationErrors is the report of the last pass, and then has no keys
\* exactly when that pass found no error, or it is the empty report that
\* handleUpload has set since, while a callback of that upload is pending.
C26_KeysHaveErrorsAndReportIsOfLastPassOrCleared ==
    /\ KeysHaveErrors(validationErrors)
    /\ \/ /\ validationErrors = lastPass.pass.allErrors
          /\ (DOMAIN validationErrors = {}) <=> PassFoundNoError(lastPass.pass)
       \/ /\ validationErrors = EmptyReport
          /\ Len(timers) + Len(readers) > 0

\* a pass has found errors for the clients dataset and none for the workers
\* dataset, and validationErrors is its report: it has the key clients and
\* not the key workers
C26_Witness ==
    /\ lastPass.pass.ran
    /\ validationErrors = lastPass.pass.allErrors
    /\ lastPass.pass.clientErrors # <<>>
    /\ lastPass.pass.workerErrors = <<>>
    /\ lastPass.pass.overloadedWorkerErrors = <<>>
    /\ "clients" \in DOMAIN validationErrors
    /\ "workers" \notin DOMAIN validationErrors

-----------------------------------------------------------------------------
\* C27: the load of a file chosen in one dataset's input changes only that
\* dataset of the host and leaves the other two unchanged, whatever the
\* file's name is, a name that contains the name of another dataset
\* included.
C27_LoadChangesOnlyItsDataset ==
    [][\A i \in 1..Len(readers) :
          ReaderOnload(i) =>
              /\ readers[i].setter # "clients" => clientsData' = clientsData
              /\ readers[i].setter # "workers" => workersData' = workersData
              /\ readers[i].setter # "tasks" => tasksData' = tasksData]_vars

-----------------------------------------------------------------------------
\* every non-empty token of the task's RequiredSkills is held by at least
\* MaxConcurrent workers
SkillsCoverConcurrency(task, workers) ==
    /\ InDomain(Get(task, "MaxConcurrent"), 1)
    /\ \A sk \in Tokens(Get(task, "RequiredSkills")) :
           Cardinality(WorkersWithSkill(workers, sk)) >= IntOf(Get(task, "MaxConcurrent"))

\* C28: a task whose every non-empty RequiredSkills token is held by at
\* least MaxConcurrent workers gets no concurrency error, also when its
\* RequiredSkills has an empty token (a trailing or doubled comma): the
\* concurrency check ignores empty tokens as the skill-reference check does.
C28_ConcurrencyCheckIgnoresEmptyTokens ==
    lastPass.pass.ran =>
        \A i \in 1..Len(lastPass.pass.allTasksData) :
            SkillsCoverConcurrency(lastPass.pass.allTasksData[i], lastPass.pass.allWorkersData) =>
                /\ ErrorsWhere(lastPass.pass.maxConcurrencyErrors, LAMBDA e : e.row = i) = {}
                /\ ErrorsWhere(lastPass.pass.taskWorkerErrors, LAMBDA e : e.row = i) = {}

-----------------------------------------------------------------------------
\* the handler has returned a response
HasResponded == post.pc = "done" /\ post.status \in {200, 400, 500}

\* the AI call is attempted at most 3 times, all attempts but the last have
\* failed, and the waits so far are 2 s and then 4 s
AttemptsAndWaitsBounded ==
    /\ post.attempts <= 3
    /\ Len(post.failures) <= post.attempts
    /\ post.pc = "call" => Len(post.failures) = post.attempts - 1
    /\ post.waits = SubSeq(<<2000, 4000>>, 1, Len(post.waits))
    /\ post.pc = "done" => HasResponded

\* a further attempt is made only after a failure whose message contains
\* 'overloaded', while fewer than 3 attempts have failed, and after the wait
FurtherAttemptOnlyAfterOverloaded ==
    (post'.attempts > post.attempts /\ post.attempts >= 1) =>
        /\ post'.attempts = post.attempts + 1
        /\ Len(post.failures) = post.attempts
        /\ Len(post.failures) < 3
        /\ Includes(post.failures[Len(post.failures)], OVERLOADED)
        /\ Len(post.waits) = Len(post.failures)

\* a failure that is not of an overloaded service, or the third failure,
\* ends the request with a 500 response; any other failure starts a wait
FailureEndsOrWaits ==
    Len(post'.failures) > Len(post.failures) =>
        IF \/ ~Includes(post'.failures[Len(post'.failures)], OVERLOADED)
           \/ Len(post'.failures) = 3
        THEN post'.pc = "done" /\ post'.status = 500 /\ post'.waits = post.waits
        ELSE post'.pc = "wait"
               /\ post'.waits = Append(post.waits, 2000 * Len(post'.failures))

-----------------------------------------------------------------------------
(* Claims about the parser of the service's responses, checked under       *)
(* SpecParser                                                              *)

\* the data of a result is of the type the caller expected
DataOfExpectedType(result, expectedType) ==
    IF expectedType = ARRAY THEN result.data.type = "array"
    ELSE result.data.type = "object"

\* C30: whenever extractJSONFromAIResponse(text, expectedType) returns
\* success = true, its data is an array when expectedType is 'array' and a
\* non-null, non-array object when expectedType is 'object'; when it returns
\* success = false, data is null and error is set.
C30_SuccessMeansExpectedType ==
    extraction.pc = "returned" =>
        IF extraction.result.success
        THEN DataOfExpectedType(extraction.result, extraction.expectedType)
        ELSE extraction.result.data = NullData /\ extraction.result.error # UNDEFINED

====
